---- MODULE Spec2Model ----
(***************************************************************************)
(* Model of the extraction / repair / decode / normalisation pipeline of   *)
(* credit_score.py, invoice_2.py and market.py, of the ranking aggregator  *)
(* of market.py (analyze_product), of the endpoints of credit_score_api.py,*)
(* invoice_api_2.py and market_api.py, of the retry loop and the           *)
(* compliance regions of policy_generator.py, of two uploads in flight in  *)
(* invoice_api_2.py, of the reconciliation of invoice_2.py, of supplier    *)
(* discovery in raw_test.py and of the B2B score and platform discovery of *)
(* market.py.                                                              *)
(* Each part has its own specification over its own group of variables.    *)
(*                                                                         *)
(* A text is a sequence of tokens.  A token is one character of the        *)
(* source text that the regular expressions and the JSON decoder           *)
(* distinguish ("{", "}", "[", "]", ",", ":", the double quote, a blank,   *)
(* a newline, a digit) or an atomic run of other characters (a word such   *)
(* as "rank").  FENCE stands for the three backticks of a markdown fence.  *)
(***************************************************************************)
EXTENDS Integers, Sequences, FiniteSets, TLC

VARIABLES fn, input, pc, text, span, decoded, result,
          platforms, analysis, idx, platforms_list, rpc, final_results, main_output,
          decimal, quantized,
          endpoint, request, llm, apc, response,
          caller, policy_types, ptype_idx, max_retries, attempt, calls, failed,
          policy_json, generated_policies, ppc, chat_completion, external_calls,
          image, disk, base64_image, hpc,
          amounts, reconciled,
          raw_text, suppliers,
          product_details, groq_response, is_b2b, discovered,
          country, compliance_regions

textVars == <<fn, input, pc, text, span, decoded, result>>
rankVars == <<platforms, analysis, idx, platforms_list, rpc, final_results, main_output>>
moneyVars == <<decimal, quantized>>
apiVars == <<endpoint, request, llm, apc, response>>
policyVars == <<caller, policy_types, ptype_idx, max_retries, attempt, calls, failed,
                policy_json, generated_policies, ppc, chat_completion, external_calls>>
fileVars == <<image, disk, base64_image, hpc>>
reconVars == <<amounts, reconciled>>
supplierVars == <<raw_text, suppliers>>
productVars == <<product_details, groq_response, is_b2b, discovered>>
regionVars == <<country, compliance_regions>>
vars == <<textVars, rankVars, moneyVars, apiVars, policyVars, fileVars, reconVars, supplierVars, productVars, regionVars>>

\* the variables a step of one part of the program leaves alone
notTextVars == <<rankVars, moneyVars, apiVars, policyVars, fileVars, reconVars, supplierVars, productVars, regionVars>>
notRankVars == <<textVars, moneyVars, apiVars, policyVars, fileVars, reconVars, supplierVars, productVars, regionVars>>
notMoneyVars == <<textVars, rankVars, apiVars, policyVars, fileVars, reconVars, supplierVars, productVars, regionVars>>
notApiVars == <<textVars, rankVars, moneyVars, policyVars, fileVars, reconVars, supplierVars, productVars, regionVars>>
notPolicyVars == <<textVars, rankVars, moneyVars, apiVars, fileVars, reconVars, supplierVars, productVars, regionVars>>
notTextApiVars == <<rankVars, moneyVars, policyVars, fileVars, reconVars, supplierVars, productVars, regionVars>>
notFileVars == <<textVars, rankVars, moneyVars, apiVars, policyVars, reconVars, supplierVars, productVars, regionVars>>
notReconVars == <<textVars, rankVars, moneyVars, apiVars, policyVars, fileVars, supplierVars, productVars, regionVars>>
notSupplierVars == <<textVars, rankVars, moneyVars, apiVars, policyVars, fileVars, reconVars, productVars, regionVars>>
notProductVars == <<textVars, rankVars, moneyVars, apiVars, policyVars, fileVars, reconVars, supplierVars, regionVars>>
notRegionVars == <<textVars, rankVars, moneyVars, apiVars, policyVars, fileVars, reconVars, supplierVars, productVars>>

(***************************************************************************)
(* Bounds of the model.                                                    *)
(***************************************************************************)
MaxRepairLen == 3
MaxScanLen == 5
MaxPresent == 3
MaxEntries == 2
MaxMils == 300

(***************************************************************************)
(* Tokens.                                                                 *)
(***************************************************************************)
FENCE == "<fence>"
DQ == "\""
NL == "\n"

IsSpace(c) == c \in {" ", NL}

Lower(c) ==
  CASE c = "JSON" -> "json"
    [] c = "Json" -> "json"
    [] c = "NO_INVOICE_FOUND" -> "no_invoice_found"
    [] c = "VAT" -> "vat"
    [] c = "GST" -> "gst"
    [] c = "Tax" -> "tax"
    [] c = "Construction" -> "construction"
    [] c = "Offices" -> "offices"
    [] OTHER -> c

Digits == {"0", "1", "2", "3", "4", "5", "6", "7", "8", "9"}

DigitVal(c) ==
  CASE c = "0" -> 0 [] c = "1" -> 1 [] c = "2" -> 2 [] c = "3" -> 3
    [] c = "4" -> 4 [] c = "5" -> 5 [] c = "6" -> 6 [] c = "7" -> 7
    [] c = "8" -> 8 [] c = "9" -> 9

(***************************************************************************)
(* Sequence helpers.                                                       *)
(***************************************************************************)
Slice(s, a, b) == IF a > b THEN << >> ELSE SubSeq(s, a, b)

\* index of the first position >= i that does not hold whitespace (Len(s)+1 if none)
RECURSIVE SkipSpace(_, _)
SkipSpace(s, i) ==
  IF i <= Len(s) /\ IsSpace(s[i]) THEN SkipSpace(s, i + 1) ELSE i

\* str.find: the first index >= i holding c, 0 if there is none
RECURSIVE Find(_, _, _)
Find(s, c, i) ==
  IF i > Len(s) THEN 0 ELSE IF s[i] = c THEN i ELSE Find(s, c, i + 1)

\* the last index holding c, 0 if there is none
RECURSIVE RFind(_, _, _)
RFind(s, c, i) ==
  IF i < 1 THEN 0 ELSE IF s[i] = c THEN i ELSE RFind(s, c, i - 1)

\* str.strip()
RECURSIVE RSkipSpace(_, _)
RSkipSpace(s, i) ==
  IF i >= 1 /\ IsSpace(s[i]) THEN RSkipSpace(s, i - 1) ELSE i

Strip(s) == Slice(s, SkipSpace(s, 1), RSkipSpace(s, Len(s)))

RECURSIVE SeqsUpTo(_, _)
SeqsUpTo(A, n) ==
  IF n = 0 THEN {<< >>}
  ELSE LET shorter == SeqsUpTo(A, n - 1)
       IN shorter \cup {Append(s, c) : s \in shorter, c \in A}

(***************************************************************************)
(* Regular expressions of the parse functions, on token sequences.         *)
(***************************************************************************)

\* re.sub(r",(\s*[}\]])", r"\1", text): left to right, each comma that is followed
\* by whitespace* and a closing bracket is dropped, and the scan resumes after the bracket
RECURSIVE RemoveTrailingCommasFrom(_, _)
RemoveTrailingCommasFrom(s, i) ==
  IF i > Len(s) THEN << >>
  ELSE LET j == SkipSpace(s, i + 1)
       IN IF s[i] = "," /\ j <= Len(s) /\ s[j] \in {"}", "]"}
          THEN Slice(s, i + 1, j) \o RemoveTrailingCommasFrom(s, j + 1)
          ELSE <<s[i]>> \o RemoveTrailingCommasFrom(s, i + 1)

RemoveTrailingCommas(s) == RemoveTrailingCommasFrom(s, 1)

\* re.sub(r'\n\s*', ' ', json_str)
RECURSIVE CollapseNewlinesFrom(_, _)
CollapseNewlinesFrom(s, i) ==
  IF i > Len(s) THEN << >>
  ELSE IF s[i] = NL
       THEN <<" ">> \o CollapseNewlinesFrom(s, SkipSpace(s, i + 1))
       ELSE <<s[i]>> \o CollapseNewlinesFrom(s, i + 1)

CollapseNewlines(s) == CollapseNewlinesFrom(s, 1)

\* the syntax repair of parse_platform_analysis: both substitutions
MarketRepairText(s) == CollapseNewlines(RemoveTrailingCommas(s))

\* r"```json\s*(\{[\s\S]*?\})\s*```" with re.IGNORECASE, anchored at i:
\* the index of the closing brace of group 1, 0 if there is no match at i
FenceOpenAt(s, i) ==
  /\ i + 1 <= Len(s)
  /\ s[i] = FENCE
  /\ Lower(s[i + 1]) = "json"

FenceGroupStart(s, i) == SkipSpace(s, i + 2)

RECURSIVE LazyCloseFrom(_, _)
LazyCloseFrom(s, k) ==
  IF k > Len(s) THEN 0
  ELSE LET m == SkipSpace(s, k + 1)
       IN IF s[k] = "}" /\ m <= Len(s) /\ s[m] = FENCE
          THEN k
          ELSE LazyCloseFrom(s, k + 1)

FenceMatchAt(s, i) ==
  LET j == FenceGroupStart(s, i)
  IN IF FenceOpenAt(s, i) /\ j <= Len(s) /\ s[j] = "{"
     THEN LazyCloseFrom(s, j + 1)
     ELSE 0

\* re.search of the fenced pattern: the leftmost start with a match
RECURSIVE FencedSearchFrom(_, _)
FencedSearchFrom(s, i) ==
  IF i > Len(s) THEN [found |-> FALSE, group |-> << >>]
  ELSE IF FenceMatchAt(s, i) # 0
       THEN [found |-> TRUE,
             group |-> Slice(s, FenceGroupStart(s, i), FenceMatchAt(s, i))]
       ELSE FencedSearchFrom(s, i + 1)

FencedSearch(s) == FencedSearchFrom(s, 1)

\* re.search(r"\{[\s\S]*\}", text): from the first "{" to the last "}" after it
GreedyBraceSearch(s) ==
  LET a == Find(s, "{", 1)
      b == RFind(s, "}", Len(s))
  IN IF a # 0 /\ b > a
     THEN [found |-> TRUE, group |-> Slice(s, a, b)]
     ELSE [found |-> FALSE, group |-> << >>]

\* re.sub(r'```json\s*', '', text, flags=re.IGNORECASE)
RECURSIVE RemoveJsonFencesFrom(_, _)
RemoveJsonFencesFrom(s, i) ==
  IF i > Len(s) THEN << >>
  ELSE IF FenceOpenAt(s, i)
       THEN RemoveJsonFencesFrom(s, SkipSpace(s, i + 2))
       ELSE <<s[i]>> \o RemoveJsonFencesFrom(s, i + 1)

\* re.sub(r'```\s*', '', text)
RECURSIVE RemoveFencesFrom(_, _)
RemoveFencesFrom(s, i) ==
  IF i > Len(s) THEN << >>
  ELSE IF s[i] = FENCE
       THEN RemoveFencesFrom(s, SkipSpace(s, i + 1))
       ELSE <<s[i]>> \o RemoveFencesFrom(s, i + 1)

StripFences(s) == RemoveFencesFrom(RemoveJsonFencesFrom(s, 1), 1)

\* a scan that keeps no depth: it stops at the first "}" it meets
RECURSIVE ScanToFirstClose(_, _, _, _)
ScanToFirstClose(s, i, brace_count, end_idx) ==
  IF i > Len(s) THEN [brace_count |-> brace_count, end_idx |-> end_idx]
  ELSE IF s[i] = "{" THEN ScanToFirstClose(s, i + 1, brace_count + 1, end_idx)
  ELSE IF s[i] = "}" THEN [brace_count |-> 0, end_idx |-> i]
  ELSE ScanToFirstClose(s, i + 1, brace_count, end_idx)

\* the for loop of parse_platform_analysis from start_idx, with its break
RECURSIVE ScanBraces(_, _, _, _)
ScanBraces(s, i, brace_count, end_idx) ==
  IF i > Len(s) THEN [brace_count |-> brace_count, end_idx |-> end_idx]
  ELSE IF s[i] = "{" THEN ScanBraces(s, i + 1, brace_count + 1, end_idx)
  ELSE IF s[i] = "}"
       THEN IF brace_count - 1 = 0
            THEN [brace_count |-> 0, end_idx |-> i]
            ELSE ScanBraces(s, i + 1, brace_count - 1, end_idx)
  ELSE ScanBraces(s, i + 1, brace_count, end_idx)

\* lines 331-352 of market.py: the span, or none
BalancedSpan(s) ==
  LET start_idx == Find(s, "{", 1)
      scan == ScanBraces(s, start_idx, 0, start_idx)
  IN IF start_idx = 0 THEN [found |-> FALSE, why |-> "no_brace", group |-> << >>]
     ELSE IF scan.brace_count # 0
          THEN [found |-> FALSE, why |-> "unbalanced", group |-> << >>]
          ELSE [found |-> TRUE, why |-> "balanced",
                group |-> Slice(s, start_idx, scan.end_idx)]


(***************************************************************************)
(* JSON values, tagged, and json.loads on token sequences.                 *)
(***************************************************************************)
Num(n) == [t |-> "num", n |-> n]
Str(x) == [t |-> "str", s |-> x]
Bool(b) == [t |-> "bool", b |-> b]
Null == [t |-> "null"]
Arr(a) == [t |-> "arr", a |-> a]
Obj(m) == [t |-> "obj", m |-> m]

EmptyMap == << >>
EmptyDict == Obj(EmptyMap)

IsObj(v) == v.t = "obj"
Has(v, k) == k \in DOMAIN v.m

\* dict.get(k, default)
Get(v, k, default) == IF Has(v, k) THEN v.m[k] ELSE default

\* d[k] = x on a map
Put(m, k, x) == [j \in DOMAIN m \cup {k} |-> IF j = k THEN x ELSE m[j]]

RECURSIVE Concat(_)
Concat(ws) == IF ws = << >> THEN "" ELSE Head(ws) \o Concat(Tail(ws))

RECURSIVE DigitRunEnd(_, _)
DigitRunEnd(s, i) ==
  IF i + 1 <= Len(s) /\ s[i + 1] \in Digits THEN DigitRunEnd(s, i + 1) ELSE i

RECURSIVE DigitsValue(_, _, _, _)
DigitsValue(s, i, j, acc) ==
  IF i > j THEN acc ELSE DigitsValue(s, i + 1, j, 10 * acc + DigitVal(s[i]))

Failed == [ok |-> FALSE]
Parsed(v, i) == [ok |-> TRUE, v |-> v, i |-> i]

\* a string literal opening at i, up to its closing quote: the words between
\* the quotes; no control character inside
ParseString(s, i) ==
  LET k == Find(s, DQ, i + 1)
  IN IF k = 0 \/ \E q \in (i + 1)..(k - 1) : s[q] = NL
     THEN Failed
     ELSE Parsed(Slice(s, i + 1, k - 1), k + 1)

RECURSIVE ParseValue(_, _), ParseMembers(_, _, _), ParseElements(_, _, _)

\* the members of an object, the first key expected at i
ParseMembers(s, i, m) ==
  IF i > Len(s) \/ s[i] # DQ THEN Failed
  ELSE LET key == ParseString(s, i)
       IN IF ~key.ok THEN Failed
          ELSE LET c == SkipSpace(s, key.i)
               IN IF c > Len(s) \/ s[c] # ":" THEN Failed
                  ELSE LET val == ParseValue(s, SkipSpace(s, c + 1))
                       IN IF ~val.ok THEN Failed
                          ELSE LET e == SkipSpace(s, val.i)
                                   m2 == Put(m, Concat(key.v), val.v)
                               IN IF e > Len(s) THEN Failed
                                  ELSE IF s[e] = "}" THEN Parsed(Obj(m2), e + 1)
                                  ELSE IF s[e] = ","
                                       THEN ParseMembers(s, SkipSpace(s, e + 1), m2)
                                       ELSE Failed

\* the elements of an array, the first value expected at i
ParseElements(s, i, a) ==
  LET val == ParseValue(s, i)
  IN IF ~val.ok THEN Failed
     ELSE LET e == SkipSpace(s, val.i)
              a2 == Append(a, val.v)
          IN IF e > Len(s) THEN Failed
             ELSE IF s[e] = "]" THEN Parsed(Arr(a2), e + 1)
             ELSE IF s[e] = ","
                  THEN ParseElements(s, SkipSpace(s, e + 1), a2)
                  ELSE Failed

ParseValue(s, i) ==
  IF i > Len(s) THEN Failed
  ELSE IF s[i] = DQ
       THEN LET str == ParseString(s, i)
            IN IF str.ok THEN Parsed(Str(str.v), str.i) ELSE Failed
  ELSE IF s[i] = "{"
       THEN LET j == SkipSpace(s, i + 1)
            IN IF j <= Len(s) /\ s[j] = "}"
               THEN Parsed(EmptyDict, j + 1)
               ELSE ParseMembers(s, j, EmptyMap)
  ELSE IF s[i] = "["
       THEN LET j == SkipSpace(s, i + 1)
            IN IF j <= Len(s) /\ s[j] = "]"
               THEN Parsed(Arr(<< >>), j + 1)
               ELSE ParseElements(s, j, << >>)
  ELSE IF s[i] \in Digits
       THEN LET j == IF s[i] = "0" THEN i ELSE DigitRunEnd(s, i)
            IN Parsed(Num(DigitsValue(s, i, j, 0)), j + 1)
  ELSE IF s[i] = "null" THEN Parsed(Null, i + 1)
  ELSE IF s[i] = "true" THEN Parsed(Bool(TRUE), i + 1)
  ELSE IF s[i] = "false" THEN Parsed(Bool(FALSE), i + 1)
  ELSE Failed

\* json.loads(text): one value, whitespace around it, nothing after it
JsonLoads(s) ==
  LET r == ParseValue(s, SkipSpace(s, 1))
  IN IF r.ok /\ SkipSpace(s, r.i) > Len(s)
     THEN [ok |-> TRUE, v |-> r.v]
     ELSE Failed


(***************************************************************************)
(* Numeric coercions: float(x), int(x) and Decimal(x) of a decoded value.  *)
(* The model's numbers are integers, on which the three agree.             *)
(***************************************************************************)
Word(w) == Str(<<w>>)

NoNumber == [ok |-> FALSE]
Number(n) == [ok |-> TRUE, n |-> n]

\* the number a string spells, surrounding whitespace ignored; none if it spells none
StringToNumber(x) ==
  LET w == Strip(x)
  IN IF w # << >> /\ \A i \in 1..Len(w) : w[i] \in Digits
     THEN Number(DigitsValue(w, 1, Len(w), 0))
     ELSE NoNumber

CoerceNumber(v) ==
  CASE v.t = "num" -> Number(v.n)
    [] v.t = "bool" -> Number(IF v.b THEN 1 ELSE 0)
    [] v.t = "str" -> StringToNumber(v.s)
    [] OTHER -> NoNumber

ToFloat(v) == CoerceNumber(v)
ToInt(v) == CoerceNumber(v)
ToDecimal(v) == CoerceNumber(v)

\* what a call produces: a returned value or an exception leaving the function
Return(v) == [kind |-> "return", val |-> v]
Raise == [kind |-> "raise"]
NoResult == [kind |-> "none"]

(***************************************************************************)
(* credit_score.py: validate_credit_response.                              *)
(***************************************************************************)
factors ==
  <<"payment_completion_rate", "paid_to_pending_ratio", "tax_compliance",
    "extra_charges_management">>

FactorNames == {factors[i] : i \in 1..Len(factors)}

\* one entry of validated_response["factor_breakdown"] (lines 199-206)
FactorEntry(factor_data) ==
  Obj(("actual_value" :> Num(ToFloat(Get(factor_data, "actual_value", Num(0))).n))
   @@ ("individual_score" :> Num(ToFloat(Get(factor_data, "individual_score", Num(0))).n))
   @@ ("weighted_score" :> Num(ToFloat(Get(factor_data, "weighted_score", Num(0))).n))
   @@ ("weight_percentage" :> Num(ToInt(Get(factor_data, "weight_percentage", Num(0))).n))
   @@ ("comment" :> Get(factor_data, "comment", Word("N/A"))))

\* the loop body raises: factor_data has no .get, or a float()/int() fails
FactorRaises(factor_data) ==
  \/ ~IsObj(factor_data)
  \/ ~ToFloat(Get(factor_data, "actual_value", Num(0))).ok
  \/ ~ToFloat(Get(factor_data, "individual_score", Num(0))).ok
  \/ ~ToFloat(Get(factor_data, "weighted_score", Num(0))).ok
  \/ ~ToInt(Get(factor_data, "weight_percentage", Num(0))).ok

ValidateCreditRaises(data) ==
  LET detailed == Get(data, "detailed_analysis", EmptyDict)
      recs == Get(data, "recommendations", EmptyDict)
      factor_breakdown == Get(data, "factor_breakdown", EmptyDict)
  IN \/ ~ToFloat(Get(data, "final_weighted_credit_score", Num(0))).ok
     \/ ~IsObj(detailed)
     \/ ~IsObj(recs)
     \/ ~IsObj(factor_breakdown)
     \/ \E f \in FactorNames : FactorRaises(Get(factor_breakdown, f, EmptyDict))

ValidatedResponse(data) ==
  LET detailed == Get(data, "detailed_analysis", EmptyDict)
      recs == Get(data, "recommendations", EmptyDict)
      factor_breakdown == Get(data, "factor_breakdown", EmptyDict)
  IN Obj(("final_weighted_credit_score" :>
            Num(ToFloat(Get(data, "final_weighted_credit_score", Num(0))).n))
      @@ ("score_category" :> Get(data, "score_category", Word("Unknown")))
      @@ ("factor_breakdown" :>
            Obj([f \in FactorNames |->
                   FactorEntry(Get(factor_breakdown, f, EmptyDict))]))
      @@ ("detailed_analysis" :>
            Obj(("strengths" :> Get(detailed, "strengths", Arr(<< >>)))
             @@ ("weaknesses" :> Get(detailed, "weaknesses", Arr(<< >>)))
             @@ ("risk_assessment" :> Get(detailed, "risk_assessment", Word("Unknown")))
             @@ ("creditworthiness_summary" :>
                   Get(detailed, "creditworthiness_summary", Arr(<< >>)))))
      @@ ("recommendations" :>
            Obj(("immediate_actions" :> Get(recs, "immediate_actions", Arr(<< >>)))
             @@ ("long_term_improvements" :>
                   Get(recs, "long_term_improvements", Arr(<< >>)))
             @@ ("priority_focus_areas" :>
                   Get(recs, "priority_focus_areas", Arr(<< >>))))))

validate_credit_response(data) ==
  IF ~IsObj(data) THEN Return(EmptyDict)
  ELSE IF ValidateCreditRaises(data) THEN Raise
  ELSE Return(ValidatedResponse(data))


(***************************************************************************)
(* json.dumps on tagged values (default separators; the keys of an object  *)
(* in a fixed order, which no use below depends on).                       *)
(***************************************************************************)
RECURSIVE SetToSeq(_)
SetToSeq(S) ==
  IF S = {} THEN << >>
  ELSE LET x == CHOOSE y \in S : TRUE IN <<x>> \o SetToSeq(S \ {x})

DigitToken(d) ==
  CASE d = 0 -> "0" [] d = 1 -> "1" [] d = 2 -> "2" [] d = 3 -> "3"
    [] d = 4 -> "4" [] d = 5 -> "5" [] d = 6 -> "6" [] d = 7 -> "7"
    [] d = 8 -> "8" [] d = 9 -> "9"

RECURSIVE NumberTokens(_)
NumberTokens(n) ==
  IF n < 0 THEN <<"-">> \o NumberTokens(0 - n)
  ELSE IF n < 10 THEN <<DigitToken(n)>>
  ELSE NumberTokens(n \div 10) \o <<DigitToken(n % 10)>>

RECURSIVE Dumps(_), DumpsMembers(_, _), DumpsElements(_, _)

DumpsMembers(m, keys) ==
  IF keys = << >> THEN << >>
  ELSE <<DQ, Head(keys), DQ, ":", " ">> \o Dumps(m[Head(keys)])
       \o (IF Tail(keys) = << >> THEN << >> ELSE <<",", " ">>)
       \o DumpsMembers(m, Tail(keys))

DumpsElements(a, i) ==
  IF i > Len(a) THEN << >>
  ELSE Dumps(a[i]) \o (IF i = Len(a) THEN << >> ELSE <<",", " ">>)
       \o DumpsElements(a, i + 1)

Dumps(v) ==
  CASE v.t = "num" -> NumberTokens(v.n)
    [] v.t = "str" -> <<DQ>> \o v.s \o <<DQ>>
    [] v.t = "bool" -> IF v.b THEN <<"true">> ELSE <<"false">>
    [] v.t = "null" -> <<"null">>
    [] v.t = "arr" -> <<"[">> \o DumpsElements(v.a, 1) \o <<"]">>
    [] v.t = "obj" -> <<"{">> \o DumpsMembers(v.m, SetToSeq(DOMAIN v.m)) \o <<"}">>

\* needle in text.lower(), for a needle that lies within one word of the text
Mentions(toks, needles) == \E i \in 1..Len(toks) : Lower(toks[i]) \in needles

(***************************************************************************)
(* invoice_2.py: parse_invoice_information, lines 161-208.                 *)
(***************************************************************************)
\* the lower-cased words of the model's vocabulary that contain one of
\* "tax", "vat", "gst", "sales tax" (line 194)
TaxWords == {"tax", "vat", "gst", "tax_amount", "tax_compliance"}

\* what `for item in x` iterates over; not iterable: ok is FALSE
Iterate(x) ==
  CASE x.t = "arr" -> [ok |-> TRUE, items |-> x.a]
    [] x.t = "str" -> [ok |-> TRUE, items |-> [i \in 1..Len(x.s) |-> Word(x.s[i])]]
    [] x.t = "obj" ->
         [ok |-> TRUE,
          items |-> [i \in 1..Cardinality(DOMAIN x.m) |-> Word(SetToSeq(DOMAIN x.m)[i])]]
    [] OTHER -> [ok |-> FALSE, items |-> << >>]

\* lines 175-176 raise: item.get, .strip() or Decimal() fails
ItemRaises(item) ==
  \/ ~IsObj(item)
  \/ Get(item, "description", Str(<< >>)).t # "str"
  \/ ~ToDecimal(Get(item, "amount", Num(0))).ok

\* lines 174-181: the line items kept, those with a non-blank description
RECURSIVE KeptItems(_, _)
KeptItems(items, i) ==
  IF i > Len(items) THEN << >>
  ELSE LET description == Strip(Get(items[i], "description", Str(<< >>)).s)
           amount == ToDecimal(Get(items[i], "amount", Num(0))).n
       IN (IF description # << >>
           THEN <<Obj(("description" :> Str(description)) @@ ("amount" :> Num(amount)))>>
           ELSE << >>)
          \o KeptItems(items, i + 1)

RECURSIVE SumAmounts(_, _)
SumAmounts(items, i) ==
  IF i > Len(items) THEN 0 ELSE items[i].m["amount"].n + SumAmounts(items, i + 1)

NormalizeRaises(invoice_data) ==
  LET it == Iterate(Get(invoice_data, "line_items", Arr(<< >>)))
  IN \/ ~ToDecimal(Get(invoice_data, "total_amount", Num(0))).ok
     \/ ~ToDecimal(Get(invoice_data, "pending_amount", Num(0))).ok
     \/ ~it.ok
     \/ \E i \in 1..Len(it.items) : ItemRaises(it.items[i])
     \/ ~ToDecimal(Get(invoice_data, "tax_amount", Num(0))).ok
     \/ ~ToDecimal(Get(invoice_data, "extra_charges", Num(0))).ok

\* lines 162-185: the fields with their defaults
ExtractedFields(invoice_data) ==
    ("invoice_number" :> Get(invoice_data, "invoice_number", Word("Unknown")))
 @@ ("client" :> Get(invoice_data, "client", Word("Unknown")))
 @@ ("date" :> Get(invoice_data, "date", Word("Unknown")))
 @@ ("payment_terms" :> Get(invoice_data, "payment_terms", Word("Not specified")))
 @@ ("industry" :> Get(invoice_data, "industry", Word("Not specified")))
 @@ ("total_amount" :> Num(ToDecimal(Get(invoice_data, "total_amount", Num(0))).n))
 @@ ("currency" :> Get(invoice_data, "currency", Word("Unknown")))
 @@ ("pending_amount" :> Num(ToDecimal(Get(invoice_data, "pending_amount", Num(0))).n))
 @@ ("small_analysis" :> Get(invoice_data, "small_analysis", Word("N/A")))
 @@ ("line_items" :>
       Arr(KeptItems(Iterate(Get(invoice_data, "line_items", Arr(<< >>))).items, 1)))
 @@ ("tax_amount" :> Num(ToDecimal(Get(invoice_data, "tax_amount", Num(0))).n))
 @@ ("extra_charges" :> Num(ToDecimal(Get(invoice_data, "extra_charges", Num(0))).n))

\* an inference that never looks for a tax keyword
InferExtraOnly(invoice_info, invoice_data) ==
  LET difference == invoice_info["total_amount"].n
                    - SumAmounts(invoice_info["line_items"].a, 1)
  IN IF invoice_info["tax_amount"].n = 0 /\ invoice_info["extra_charges"].n = 0
        /\ difference # 0
     THEN [invoice_info EXCEPT !["extra_charges"] = Num(difference)]
     ELSE invoice_info

\* an inference made whatever tax_amount and extra_charges are
InferWithoutGuard(invoice_info, invoice_data) ==
  LET difference == invoice_info["total_amount"].n
                    - SumAmounts(invoice_info["line_items"].a, 1)
  IN IF difference # 0
     THEN IF Mentions(Dumps(invoice_data), TaxWords)
          THEN [invoice_info EXCEPT !["tax_amount"] = Num(difference)]
          ELSE [invoice_info EXCEPT !["extra_charges"] = Num(difference)]
     ELSE invoice_info

\* the serialized values of a record, without its field names
RECURSIVE DumpsValues(_, _)
DumpsValues(m, keys) ==
  IF keys = << >> THEN << >>
  ELSE Dumps(m[Head(keys)]) \o <<" ">> \o DumpsValues(m, Tail(keys))

\* an inference that looks for a tax keyword in the values only
InferFromValues(invoice_info, invoice_data) ==
  LET difference == invoice_info["total_amount"].n
                    - SumAmounts(invoice_info["line_items"].a, 1)
  IN IF invoice_info["tax_amount"].n = 0 /\ invoice_info["extra_charges"].n = 0
        /\ difference # 0
     THEN IF Mentions(DumpsValues(invoice_data.m, SetToSeq(DOMAIN invoice_data.m)), TaxWords)
          THEN [invoice_info EXCEPT !["tax_amount"] = Num(difference)]
          ELSE [invoice_info EXCEPT !["extra_charges"] = Num(difference)]
     ELSE invoice_info

\* lines 187-197: the difference goes to tax_amount or to extra_charges
InferTax(invoice_info, invoice_data) ==
  LET difference == invoice_info["total_amount"].n
                    - SumAmounts(invoice_info["line_items"].a, 1)
  IN IF invoice_info["tax_amount"].n = 0 /\ invoice_info["extra_charges"].n = 0
        /\ difference # 0
     THEN IF Mentions(Dumps(invoice_data), TaxWords)
          THEN [invoice_info EXCEPT !["tax_amount"] = Num(difference)]
          ELSE [invoice_info EXCEPT !["extra_charges"] = Num(difference)]
     ELSE invoice_info

NormalizeInvoice(invoice_data) ==
  IF NormalizeRaises(invoice_data) THEN Raise
  ELSE Return(Obj(InferTax(ExtractedFields(invoice_data), invoice_data)))


(***************************************************************************)
(* The parse functions as steps.  input is the argument of the call: a     *)
(* text, or (credit and invoice) an already decoded dict.                  *)
(***************************************************************************)
TextInput(s) == [k |-> "text", s |-> s]
DictInput(d) == [k |-> "dict", d |-> d]

NotDecoded == [state |-> "none"]
DecodeFailed == [state |-> "failed"]
Decoded(v) == [state |-> "ok", v |-> v]

Finish(r) ==
  /\ result' = r
  /\ pc' = "done"

\* ---- credit_score.py: parse_credit_score_response ------------------------

\* lines 139-145
CreditGuard ==
  /\ fn = "credit" /\ pc = "start"
  /\ IF input.k = "dict"
     THEN /\ Finish(IF input.d.m = EmptyMap THEN Return(EmptyDict)
                    ELSE validate_credit_response(input.d))
          /\ UNCHANGED <<text, span, decoded>>
     ELSE IF Strip(text) = << >>
          THEN Finish(Return(EmptyDict)) /\ UNCHANGED <<text, span, decoded>>
          ELSE pc' = "extract" /\ UNCHANGED <<text, span, decoded, result>>
  /\ UNCHANGED <<fn, input>>
  /\ UNCHANGED notTextVars

\* lines 147-155
CreditExtract ==
  /\ fn = "credit" /\ pc = "extract"
  /\ LET json_match == FencedSearch(text)
         match == GreedyBraceSearch(text)
     IN IF json_match.found
        THEN text' = json_match.group /\ span' = "fenced"
        ELSE IF match.found
             THEN text' = match.group /\ span' = "brace"
             ELSE text' = text /\ span' = "raw"
  /\ pc' = "repair"
  /\ UNCHANGED <<fn, input, decoded, result>>
  /\ UNCHANGED notTextVars

\* lines 157-158
CreditRepair ==
  /\ fn = "credit" /\ pc = "repair"
  /\ text' = RemoveTrailingCommas(text)
  /\ pc' = "decode"
  /\ UNCHANGED <<fn, input, span, decoded, result>>
  /\ UNCHANGED notTextVars

\* lines 160-166: every exception of json.loads and of the validation is caught
CreditDecode ==
  /\ fn = "credit" /\ pc = "decode"
  /\ LET credit_data == JsonLoads(text)
     IN IF ~credit_data.ok
        THEN decoded' = DecodeFailed /\ Finish(Return(EmptyDict))
        ELSE /\ decoded' = Decoded(credit_data.v)
             /\ Finish(IF validate_credit_response(credit_data.v).kind = "raise"
                       THEN Return(EmptyDict)
                       ELSE validate_credit_response(credit_data.v))
  /\ UNCHANGED <<fn, input, text, span>>
  /\ UNCHANGED notTextVars

\* validate_credit_response called on a decoded value (lines 169-208)
ValidateCredit ==
  /\ fn = "validate" /\ pc = "start"
  /\ decoded' = Decoded(input.d)
  /\ Finish(validate_credit_response(input.d))
  /\ UNCHANGED <<fn, input, text, span>>
  /\ UNCHANGED notTextVars

\* ---- invoice_2.py: parse_invoice_information -----------------------------

InputWords == IF input.k = "dict" THEN Dumps(input.d) ELSE input.s

\* lines 134-140
InvoiceGuard ==
  /\ fn = "invoice" /\ pc = "start"
  /\ IF Mentions(InputWords, {"no_invoice_found"})
     THEN Finish(Return(EmptyDict)) /\ UNCHANGED <<span, decoded>>
     ELSE IF input.k = "dict"
          THEN /\ decoded' = Decoded(input.d)
               /\ span' = "dict"
               /\ pc' = "normalize"
               /\ UNCHANGED result
          ELSE pc' = "extract" /\ UNCHANGED <<span, decoded, result>>
  /\ UNCHANGED <<fn, input, text>>
  /\ UNCHANGED notTextVars

\* lines 142-145
InvoiceExtract ==
  /\ fn = "invoice" /\ pc = "extract"
  /\ LET match == GreedyBraceSearch(text)
     IN IF match.found
        THEN text' = match.group /\ span' = "brace"
        ELSE text' = text /\ span' = "raw"
  /\ pc' = "repair"
  /\ UNCHANGED <<fn, input, decoded, result>>
  /\ UNCHANGED notTextVars

\* lines 147-148
InvoiceRepair ==
  /\ fn = "invoice" /\ pc = "repair"
  /\ text' = RemoveTrailingCommas(text)
  /\ pc' = "decode"
  /\ UNCHANGED <<fn, input, span, decoded, result>>
  /\ UNCHANGED notTextVars

\* lines 150-155
InvoiceDecode ==
  /\ fn = "invoice" /\ pc = "decode"
  /\ LET invoice_data == JsonLoads(text)
     IN IF ~invoice_data.ok
        THEN decoded' = DecodeFailed /\ Finish(Return(EmptyDict))
        ELSE /\ decoded' = Decoded(invoice_data.v)
             /\ pc' = "normalize"
             /\ UNCHANGED result
  /\ UNCHANGED <<fn, input, text, span>>
  /\ UNCHANGED notTextVars

\* lines 157-208: nothing catches what the field extraction raises
InvoiceNormalize ==
  /\ fn = "invoice" /\ pc = "normalize"
  /\ Finish(IF ~IsObj(decoded.v) THEN Return(EmptyDict)
            ELSE NormalizeInvoice(decoded.v))
  /\ UNCHANGED <<fn, input, text, span, decoded>>
  /\ UNCHANGED notTextVars

\* ---- market.py: EcommercePlatformAnalyzer.parse_platform_analysis --------

\* lines 323-324
MarketGuard ==
  /\ fn = "market" /\ pc = "start"
  /\ IF Strip(text) = << >>
     THEN Finish(Return(EmptyDict))
     ELSE pc' = "strip" /\ UNCHANGED result
  /\ UNCHANGED <<fn, input, text, span, decoded>>
  /\ UNCHANGED notTextVars

\* lines 326-328
MarketStripFences ==
  /\ fn = "market" /\ pc = "strip"
  /\ text' = StripFences(text)
  /\ pc' = "scan"
  /\ UNCHANGED <<fn, input, span, decoded, result>>
  /\ UNCHANGED notTextVars

\* lines 330-352
MarketScan ==
  /\ fn = "market" /\ pc = "scan"
  /\ LET found == BalancedSpan(text)
     IN IF found.found
        THEN /\ text' = found.group
             /\ span' = "balanced"
             /\ pc' = "repair"
             /\ UNCHANGED result
        ELSE /\ span' = found.why
             /\ Finish(Return(EmptyDict))
             /\ UNCHANGED text
  /\ UNCHANGED <<fn, input, decoded>>
  /\ UNCHANGED notTextVars

\* lines 354-356
MarketRepair ==
  /\ fn = "market" /\ pc = "repair"
  /\ text' = MarketRepairText(text)
  /\ pc' = "decode"
  /\ UNCHANGED <<fn, input, span, decoded, result>>
  /\ UNCHANGED notTextVars

\* lines 358-363
MarketDecode ==
  /\ fn = "market" /\ pc = "decode"
  /\ LET value == JsonLoads(text)
     IN IF ~value.ok
        THEN decoded' = DecodeFailed /\ Finish(Return(EmptyDict))
        ELSE decoded' = Decoded(value.v) /\ Finish(Return(value.v))
  /\ UNCHANGED <<fn, input, text, span>>
  /\ UNCHANGED notTextVars


(***************************************************************************)
(* The inputs of the parse functions.                                      *)
(***************************************************************************)
\* the maps that give at most k of the fields fs a value of FV[field]
RECURSIVE MapsOver(_, _, _)
MapsOver(FV, fs, k) ==
  IF fs = {} \/ k = 0 THEN {EmptyMap}
  ELSE LET f == CHOOSE x \in fs : TRUE
           rest == fs \ {f}
       IN MapsOver(FV, rest, k)
          \cup {Put(m, f, v) : m \in MapsOver(FV, rest, k - 1), v \in FV[f]}

Item(description, amount) ==
  Obj(("description" :> description) @@ ("amount" :> amount))

CreditFieldValues ==
    ("final_weighted_credit_score" :>
       {Num(72), Str(<<"7", "2">>), Word("abc"), Null})
 @@ ("score_category" :> {Word("Good")})
 @@ ("factor_breakdown" :>
       {EmptyDict,
        Obj("tax_compliance" :>
              Obj(("actual_value" :> Num(5)) @@ ("comment" :> Word("ok")))),
        Obj("tax_compliance" :> Obj("weight_percentage" :> Word("high")))})
 @@ ("detailed_analysis" :>
       {Obj("strengths" :> Arr(<<Word("steady")>>)), Null})
 @@ ("recommendations" :>
       {Obj("immediate_actions" :> Arr(<< >>)), Word("none")})

CreditFields == DOMAIN CreditFieldValues

CreditDicts ==
  {Obj(m) : m \in MapsOver(CreditFieldValues, CreditFields, Cardinality(CreditFields))}

InvoiceFieldValues ==
    ("invoice_number" :> {Word("INV-1")})
 @@ ("client" :> {Word("Acme")})
 @@ ("date" :> {Word("2024-01-01")})
 @@ ("payment_terms" :> {Word("Net 30")})
 @@ ("industry" :> {Word("Retail")})
 @@ ("currency" :> {Word("INR")})
 @@ ("small_analysis" :> {Word("fine"), Word("VAT")})
 @@ ("total_amount" :> {Num(100), Str(<<"1", "0", "0">>), Word("abc"), Null})
 @@ ("pending_amount" :> {Num(40), Word("abc")})
 @@ ("tax_amount" :> {Num(0), Num(10), Word("abc")})
 @@ ("extra_charges" :> {Num(0), Num(5)})
 @@ ("line_items" :>
       {Arr(<< >>),
        Arr(<<Item(Word("widget"), Num(90))>>),
        Arr(<<Item(Word("widget"), Num(90)), Item(Str(<<" ">>), Num(10))>>),
        Arr(<<Item(Word("widget"), Word("abc"))>>),
        Arr(<<Num(1)>>),
        Null})

InvoiceFields == DOMAIN InvoiceFieldValues

\* a decoded invoice with every declared field
FullInvoice ==
  Obj([f \in InvoiceFields |->
         CASE f = "total_amount" -> Num(100)
           [] f = "pending_amount" -> Num(40)
           [] f = "tax_amount" -> Num(10)
           [] f = "extra_charges" -> Num(0)
           [] f = "line_items" -> Arr(<<Item(Word("widget"), Num(90))>>)
           [] OTHER -> CHOOSE v \in InvoiceFieldValues[f] : TRUE])

InvoiceDicts ==
  {Obj(m) : m \in MapsOver(InvoiceFieldValues, InvoiceFields, MaxPresent)}
  \cup {FullInvoice, Obj("note" :> Word("NO_INVOICE_FOUND"))}

\* the decoded values whose json.dumps is sent through the text path
SampleValues ==
  {EmptyDict,
   Obj("a" :> Num(1)),
   Obj("a" :> Obj("b" :> Num(1))),
   Obj("a" :> Str(<<"x", ",", "]">>)),
   Obj("a" :> Str(<<"x", "}", "y">>)),
   Arr(<<Num(1)>>),
   Obj("total_amount" :> Word("abc")),
   Obj(("total_amount" :> Num(1000))
    @@ ("line_items" :> Arr(<<Item(Word("widget"), Num(900))>>))
    @@ ("small_analysis" :> Word("VAT"))),
   Obj(("final_weighted_credit_score" :> Word("abc"))
    @@ ("score_category" :> Word("Good"))),
   Obj(("final_weighted_credit_score" :> Num(72))
    @@ ("score_category" :> Word("Good"))),
   Obj("platform_analysis" :> Obj("Amazon" :> Obj("rank" :> Num(1))))}

\* the text with a comma put before its last token
WithTrailingComma(b) ==
  IF b = << >> THEN b
  ELSE SubSeq(b, 1, Len(b) - 1) \o <<",">> \o <<b[Len(b)]>>

Bodies ==
  {Dumps(v) : v \in SampleValues}
  \cup {WithTrailingComma(Dumps(v)) : v \in SampleValues}
  \cup {<<"{", DQ, "a", DQ, ":", " ", "{", DQ, "b", DQ, ":", " ", "1", "}">>,
        <<"{", DQ, "a", DQ, ":", " ", "1", "}", " ", "{", DQ, "b", DQ, ":", " ", "2", "}">>}

Styles == {"plain", "prose", "fenced", "FENCED", "brace_fenced", "fenced_brace"}

Fenced(word, b) ==
  <<"here", " ", "is", " ", "it", " ", FENCE, word, NL>> \o b \o <<NL, FENCE, " ", "done">>

Styled(style, b) ==
  CASE style = "plain" -> b
    [] style = "prose" -> <<"Sure", ":", " ">> \o b \o <<" ", "bye">>
    [] style = "fenced" -> Fenced("json", b)
    [] style = "FENCED" -> Fenced("JSON", b)
    [] style = "brace_fenced" -> <<"{", "x", "}", " ">> \o Fenced("json", b)
    [] style = "fenced_brace" -> Fenced("json", b) \o <<" ", "{", "b", "}">>

SampleTexts ==
  {Styled(style, b) : style \in Styles, b \in Bodies}
  \cup {<<"prose", " ", "only">>, <<"NO_INVOICE_FOUND">>,
        <<FENCE, "json", NL, "[", "1", "]", NL, FENCE, " ", "{", "b", "}">>}

RepairAlphabet == {",", " ", NL, "}", "]", "a"}
ScanAlphabet == {"{", "}", "a"}

Texts ==
  SeqsUpTo(RepairAlphabet, MaxRepairLen) \cup SeqsUpTo(ScanAlphabet, MaxScanLen)
  \cup SampleTexts

Calls ==
  {[fn |-> f, input |-> TextInput(s)] : f \in {"credit", "invoice", "market"}, s \in Texts}
  \cup {[fn |-> f, input |-> DictInput(d)] : f \in {"credit", "validate"}, d \in CreditDicts}
  \cup {[fn |-> "invoice", input |-> DictInput(d)] : d \in InvoiceDicts}

\* no endpoint is serving a request
ApiIdle ==
  /\ endpoint = "none"
  /\ request = [k |-> "none"]
  /\ llm = "none"
  /\ apc = "idle"
  /\ response = [status |-> 0]

\* no policy is being generated
PolicyIdle ==
  /\ caller = "none"
  /\ policy_types = << >>
  /\ ptype_idx = 0
  /\ max_retries = 0
  /\ attempt = 0
  /\ calls = 0
  /\ failed = 0
  /\ policy_json = [kind |-> "none"]
  /\ generated_policies = << >>
  /\ ppc = "idle"
  /\ chat_completion = [raised |-> FALSE, content |-> << >>]
  /\ external_calls = 0

\* no upload is being processed
FilesIdle ==
  /\ image = << >>
  /\ disk = << >>
  /\ base64_image = << >>
  /\ hpc = << >>

\* no amounts are being reconciled
ReconIdle ==
  /\ amounts = << >>
  /\ reconciled = << >>

\* no suppliers are being discovered
SupplierIdle ==
  /\ raw_text = [raised |-> FALSE, content |-> << >>]
  /\ suppliers = NoResult

\* no product is being classified
ProductIdle ==
  /\ product_details = [price |-> 0]
  /\ groq_response = [raised |-> FALSE, content |-> << >>]
  /\ is_b2b = NoResult
  /\ discovered = NoResult

\* no country is being looked up
RegionIdle ==
  /\ country = [word |-> "", casing |-> "lower"]
  /\ compliance_regions = NoResult

\* no amount is being quantized
MoneyIdle ==
  /\ decimal = 0
  /\ quantized = << >>

RankIdle ==
  /\ platforms = << >>
  /\ analysis = EmptyDict
  /\ idx = 0
  /\ platforms_list = << >>
  /\ rpc = "idle"
  /\ final_results = NoResult
  /\ main_output = << >>

Init ==
  /\ \E c \in Calls : fn = c.fn /\ input = c.input
  /\ text = IF input.k = "text" THEN input.s ELSE << >>
  /\ pc = "start"
  /\ span = "none"
  /\ decoded = NotDecoded
  /\ result = NoResult
  /\ RankIdle
  /\ MoneyIdle
  /\ RegionIdle
  /\ ProductIdle
  /\ SupplierIdle
  /\ ReconIdle
  /\ FilesIdle
  /\ PolicyIdle
  /\ ApiIdle

Next ==
  \/ CreditGuard
  \/ CreditExtract
  \/ CreditRepair
  \/ CreditDecode
  \/ ValidateCredit
  \/ InvoiceGuard
  \/ InvoiceExtract
  \/ InvoiceRepair
  \/ InvoiceDecode
  \/ InvoiceNormalize
  \/ MarketGuard
  \/ MarketStripFences
  \/ MarketScan
  \/ MarketRepair
  \/ MarketDecode

Spec == Init /\ [][Next]_vars


(***************************************************************************)
(* market.py: analyze_product and main.                                    *)
(***************************************************************************)
known_platforms ==
    ("Amazon" :> "https://www.amazon.in")
 @@ ("Flipkart" :> "https://www.flipkart.com")
 @@ ("Myntra" :> "https://www.myntra.com")
 @@ ("Ajio" :> "https://www.ajio.com")
 @@ ("Meesho" :> "https://www.meesho.com")
 @@ ("Snapdeal" :> "https://www.snapdeal.com")
 @@ ("Nykaa" :> "https://www.nykaa.com")
 @@ ("BigBasket" :> "https://www.bigbasket.com")
 @@ ("Grofers" :> "https://blinkit.com")
 @@ ("Paytm Mall" :> "https://paytmmall.com")
 @@ ("Shopclues" :> "https://www.shopclues.com")
 @@ ("Tata CLiQ" :> "https://www.tatacliq.com")
 @@ ("JioMart" :> "https://www.jiomart.com")
 @@ ("FirstCry" :> "https://www.firstcry.com")
 @@ ("ONDC Network" :> "https://ondc.org")
 @@ ("IndiaMART" :> "https://www.indiamart.com")
 @@ ("TradeIndia" :> "https://www.tradeindia.com")
 @@ ("Amazon Business" :> "https://business.amazon.in")
 @@ ("Alibaba India" :> "https://www.alibaba.com/countrysearch/IN")
 @@ ("Government e-Marketplace (GeM)" :> "https://gem.gov.in")
 @@ ("Udaan" :> "https://udaan.com")
 @@ ("ExportersIndia" :> "https://www.exportersindia.com")
 @@ ("Global Sources" :> "https://www.globalsources.com")
 @@ ("DHgate" :> "https://www.dhgate.com")

\* the essential platforms discover_platforms_with_groq always adds (lines 199-207)
EssentialB2B ==
  {"IndiaMART", "Amazon Business", "ONDC Network", "Government e-Marketplace (GeM)"}
EssentialB2C == {"Amazon", "Flipkart", "ONDC Network"}

\* the name in lower case, for the name the analyses spell in two cases
LowerInitial(name) == IF name = "Amazon" THEN "amazon" ELSE name

\* a lookup that ignores the case of the name
PlatformInfoIgnoreCase(an, platform) ==
  LET pa == Get(an, "platform_analysis", EmptyDict)
  IN IF IsObj(pa) /\ ~Has(pa, platform) /\ Has(pa, LowerInitial(platform))
     THEN pa.m[LowerInitial(platform)]
     ELSE Get(pa, platform, EmptyDict)

\* analysis.get("platform_analysis", {}).get(platform, {}) of line 373
PlatformInfo(an, platform) ==
  Get(Get(an, "platform_analysis", EmptyDict), platform, EmptyDict)

\* lines 373-378 raise: a .get on a non-dict, or int()/float() fails
EntryRaises(an, platform) ==
  \/ ~IsObj(Get(an, "platform_analysis", EmptyDict))
  \/ ~IsObj(PlatformInfo(an, platform))
  \/ ~ToInt(Get(PlatformInfo(an, platform), "rank", Num(999))).ok
  \/ ~ToFloat(Get(PlatformInfo(an, platform), "score", Num(0))).ok

\* the dict appended at lines 374-394
PlatformEntry(an, platform) ==
  LET info == PlatformInfo(an, platform)
  IN Obj(("name" :> Word(platform))
      @@ ("homepage" :> IF platform \in DOMAIN known_platforms
                        THEN Word(known_platforms[platform])
                        ELSE Str(<< >>))
      @@ ("rank" :> Num(ToInt(Get(info, "rank", Num(999))).n))
      @@ ("score" :> Num(ToFloat(Get(info, "score", Num(0))).n))
      @@ ("reasoning" :> Get(info, "reasoning", Str(<< >>)))
      @@ ("gst_taxes" :> Get(info, "gst_taxes", Word("Unknown")))
      @@ ("other_charges" :> Get(info, "other_charges", Word("Unknown")))
      @@ ("profit" :> Get(info, "profit_analysis", Word("Unknown")))
      @@ ("final_selling_charge" :> Get(info, "final_selling_charge", Word("Unknown")))
      @@ ("commission_fees" :> Get(info, "commission_fees", Word("Unknown")))
      @@ ("advantages" :> Get(info, "advantages", Arr(<< >>)))
      @@ ("disadvantages" :> Get(info, "disadvantages", Arr(<< >>)))
      @@ ("target_audience_match" :> Get(info, "target_audience_match", Word("Unknown")))
      @@ ("category_fit" :> Get(info, "category_fit", Word("Unknown")))
      @@ ("competition_level" :> Get(info, "competition_level", Word("Unknown")))
      @@ ("business_model" :> Get(info, "business_model", Word("Unknown")))
      @@ ("bulk_order_benefits" :> Get(info, "bulk_order_benefits", Str(<< >>)))
      @@ ("verification_standards" :> Get(info, "verification_standards", Str(<< >>)))
      @@ ("recommended_strategy" :> Get(info, "recommended_strategy", Str(<< >>))))

RankOf(e) == e.m["rank"].n
NameOf(e) == e.m["name"].s[1]

\* an insertion that puts e before the entries of equal rank
RECURSIVE InsertBeforeEqual(_, _)
InsertBeforeEqual(sorted, e) ==
  IF sorted = << >> THEN <<e>>
  ELSE IF RankOf(e) <= RankOf(Head(sorted)) THEN <<e>> \o sorted
  ELSE <<Head(sorted)>> \o InsertBeforeEqual(Tail(sorted), e)

\* e goes after every entry whose rank is not larger
RECURSIVE InsertAfterEqual(_, _)
InsertAfterEqual(sorted, e) ==
  IF sorted = << >> THEN <<e>>
  ELSE IF RankOf(e) < RankOf(Head(sorted)) THEN <<e>> \o sorted
  ELSE <<Head(sorted)>> \o InsertAfterEqual(Tail(sorted), e)

RECURSIVE UnstableSortFrom(_, _, _)
UnstableSortFrom(list, i, sorted) ==
  IF i > Len(list) THEN sorted
  ELSE UnstableSortFrom(list, i + 1, InsertBeforeEqual(sorted, list[i]))

RECURSIVE SortFrom(_, _, _)
SortFrom(list, i, sorted) ==
  IF i > Len(list) THEN sorted
  ELSE SortFrom(list, i + 1, InsertAfterEqual(sorted, list[i]))

\* a sort by rank that reverses the entries of equal rank
UnstableSortByRank(list) == UnstableSortFrom(list, 1, << >>)

\* platforms_list.sort(key=lambda x: x["rank"]) (line 396): list.sort is stable
SortByRank(list) == SortFrom(list, 1, << >>)

\* one pass of the for loop of lines 372-394; an exception leaves analyze_product
AnalyzeLoop ==
  /\ rpc = "loop" /\ idx <= Len(platforms)
  /\ IF EntryRaises(analysis, platforms[idx])
     THEN /\ rpc' = "raised"
          /\ final_results' = Raise
          /\ UNCHANGED <<idx, platforms_list>>
     ELSE /\ platforms_list' = Append(platforms_list, PlatformEntry(analysis, platforms[idx]))
          /\ idx' = idx + 1
          /\ UNCHANGED <<rpc, final_results>>
  /\ UNCHANGED <<platforms, analysis, main_output>>
  /\ UNCHANGED notRankVars

\* lines 396-403
AnalyzeReturn ==
  /\ rpc = "loop" /\ idx > Len(platforms)
  /\ platforms_list' = SortByRank(platforms_list)
  /\ final_results' =
       Return(Obj(("platforms" :> Arr(platforms_list'))
               @@ ("overall_recommendations" :>
                     Get(analysis, "overall_recommendations", EmptyDict))))
  /\ rpc' = "returned"
  /\ UNCHANGED <<platforms, analysis, idx, main_output>>
  /\ UNCHANGED notRankVars

\* main, lines 410-416: the results serialized (indentation left out), or "{}"
MainReturn ==
  /\ rpc \in {"returned", "raised"}
  /\ main_output' = IF rpc = "returned" THEN Dumps(final_results.val) ELSE <<"{", "}">>
  /\ rpc' = "main_done"
  /\ UNCHANGED <<platforms, analysis, idx, platforms_list, final_results>>
  /\ UNCHANGED notRankVars

(***************************************************************************)
(* The inputs of analyze_product: the list discover_platforms_with_groq    *)
(* returns (a set turned into a list, so in any order, without duplicates, *)
(* with the essential platforms) and the map analyze_platform_suitability  *)
(* returns.                                                                *)
(***************************************************************************)
RECURSIVE Orderings(_)
Orderings(S) ==
  IF S = {} THEN {<< >>}
  ELSE UNION {{<<x>> \o p : p \in Orderings(S \ {x})} : x \in S}

DiscoveredLists == Orderings(EssentialB2C) \cup Orderings(EssentialB2B)

\* the keys the model's analyses use: platform names, one in another case
AnalysisKeys == {"Amazon", "amazon", "Flipkart", "ONDC Network", "IndiaMART"}

InfoValues ==
  {Obj(("rank" :> Num(1)) @@ ("score" :> Num(90)) @@ ("reasoning" :> Word("wide reach"))
       @@ ("advantages" :> Arr(<<Word("traffic")>>))),
   Obj("rank" :> Num(2)),
   Obj(("rank" :> Str(<<"2">>)) @@ ("score" :> Str(<<"8", "5">>))),
   Obj("rank" :> Word("first"))}

Analyses ==
  {Obj("platform_analysis" :> Obj(m)) :
     m \in MapsOver([k \in AnalysisKeys |-> InfoValues], AnalysisKeys, MaxEntries)}
  \cup {EmptyDict,
        Obj("error" :> Word("Analysis failed")),
        Obj(("platform_analysis" :> Obj("Flipkart" :> Obj("rank" :> Num(2))))
         @@ ("overall_recommendations" :> Obj("top_3_platforms" :> Arr(<<Word("Flipkart")>>)))),
        Obj("platform_analysis" :> Arr(<< >>)),
        Obj("platform_analysis" :> Obj("Amazon" :> Word("best")))}

TextIdle ==
  /\ fn = "none"
  /\ input = TextInput(<< >>)
  /\ pc = "idle"
  /\ text = << >>
  /\ span = "none"
  /\ decoded = NotDecoded
  /\ result = NoResult

InitRank ==
  /\ platforms \in DiscoveredLists
  /\ analysis \in Analyses
  /\ idx = 1
  /\ platforms_list = << >>
  /\ rpc = "loop"
  /\ final_results = NoResult
  /\ main_output = << >>
  /\ TextIdle
  /\ MoneyIdle
  /\ RegionIdle
  /\ ProductIdle
  /\ SupplierIdle
  /\ ReconIdle
  /\ FilesIdle
  /\ PolicyIdle
  /\ ApiIdle

NextRank ==
  \/ AnalyzeLoop
  \/ AnalyzeReturn
  \/ MainReturn

SpecRank == InitRank /\ [][NextRank]_vars


(***************************************************************************)
(* Properties of the parse functions (specification Spec).                 *)
(***************************************************************************)
TextCall == input.k = "text" /\ fn \in {"credit", "invoice", "market"}

\* the repair step of the running parse function
RepairOf(f, s) == IF f = "market" THEN MarketRepairText(s) ELSE RemoveTrailingCommas(s)

\* the normaliser of the running parse function, on a decoded object
NormalizerOf(f, data) ==
  IF f = "invoice" THEN NormalizeInvoice(data) ELSE validate_credit_response(data)

\* the decoded objects the normaliser of the running function has been applied to
NormalizedData ==
  IF pc = "done" /\ fn \in {"validate", "credit", "invoice"} /\ decoded.state = "ok"
  THEN {v \in {decoded.v} : IsObj(v)}
  ELSE {}

\* C1: totality: for every input string, parse_credit_score_response,
\* parse_invoice_information and parse_platform_analysis return a value and raise
\* no exception to their caller.
C1_Totality == (TextCall /\ pc = "done") => result.kind = "return"

\* C2: when no JSON span is extracted or the span does not decode after repair,
\* parse_credit_score_response and parse_invoice_information return the structurally
\* complete default record (the record of the empty object), not an empty map.
NoJsonFound ==
  /\ input.k = "text" /\ pc = "done"
  /\ \/ decoded = DecodeFailed
     \/ decoded = NotDecoded /\ ~Mentions(input.s, {"no_invoice_found"})

C2_DefaultRecordOnFailure ==
  (fn \in {"credit", "invoice"} /\ NoJsonFound)
    => result = NormalizerOf(fn, EmptyDict)

\* C3: completeness: for every decoded JSON object, whatever subset of the declared
\* fields it contains, the record of validate_credit_response and of
\* parse_invoice_information has every declared field, with the documented default
\* (0, "Unknown", "N/A", empty list, recursively defaulted sub-object) in place of
\* each absent field.
DocumentedFactor ==
  Obj(("actual_value" :> Num(0)) @@ ("individual_score" :> Num(0))
   @@ ("weighted_score" :> Num(0)) @@ ("weight_percentage" :> Num(0))
   @@ ("comment" :> Word("N/A")))

DocumentedCreditDefaults ==
    ("final_weighted_credit_score" :> Num(0))
 @@ ("score_category" :> Word("Unknown"))
 @@ ("factor_breakdown" :> Obj([f \in FactorNames |-> DocumentedFactor]))
 @@ ("detailed_analysis" :>
       Obj(("strengths" :> Arr(<< >>)) @@ ("weaknesses" :> Arr(<< >>))
        @@ ("risk_assessment" :> Word("Unknown"))
        @@ ("creditworthiness_summary" :> Arr(<< >>))))
 @@ ("recommendations" :>
       Obj(("immediate_actions" :> Arr(<< >>)) @@ ("long_term_improvements" :> Arr(<< >>))
        @@ ("priority_focus_areas" :> Arr(<< >>))))

DocumentedInvoiceDefaults ==
  [f \in InvoiceFields |->
     CASE f \in {"total_amount", "pending_amount", "tax_amount", "extra_charges"} -> Num(0)
       [] f = "line_items" -> Arr(<< >>)
       [] f = "small_analysis" -> Word("N/A")
       [] OTHER -> Word("Unknown")]

DocumentedDefaults(f) ==
  IF f = "invoice" THEN DocumentedInvoiceDefaults ELSE DocumentedCreditDefaults

Complete(f, data, r) ==
  /\ r.kind = "return"
  /\ IsObj(r.val)
  /\ \A k \in DOMAIN DocumentedDefaults(f) :
       /\ Has(r.val, k)
       /\ ~Has(data, k) => r.val.m[k] = DocumentedDefaults(f)[k]

C3_Completeness ==
  \A data \in NormalizedData : Complete(fn, data, result)

\* C4: a field that is present but cannot be coerced to its declared type takes its
\* default, and every sibling field keeps the value it would have had otherwise:
\* the record is the one of the same object without that field.
NumericFields(f) ==
  IF f = "invoice" THEN {"total_amount", "pending_amount", "tax_amount", "extra_charges"}
  ELSE {"final_weighted_credit_score"}

Without(data, k) == Obj([j \in DOMAIN data.m \ {k} |-> data.m[j]])

C4_CoercionAbsorbedPerField ==
  \A data \in NormalizedData :
    \A k \in NumericFields(fn) :
      (/\ Has(data, k)
       /\ ~CoerceNumber(data.m[k]).ok
       /\ NormalizerOf(fn, Without(data, k)).kind = "return")
        => result = NormalizerOf(fn, Without(data, k))

\* C5: the syntax repair step is idempotent: the repaired text, repaired again,
\* is the same text.
C5_RepairIdempotent == (TextCall /\ pc = "decode") => RepairOf(fn, text) = text

\* C6: whenever the input contains a ```json ... ``` fenced block (the delimiter in
\* any case), the extracted span is the interior of that block, whatever braces the
\* prose around the fence holds; the input
\* 'here is it ```json\n{"a": 1,}\n``` done' decodes to {"a": 1}.
RECURSIVE FirstFenceOpen(_, _)
FirstFenceOpen(s, i) ==
  IF i > Len(s) THEN 0
  ELSE IF FenceOpenAt(s, i) /\ Find(s, FENCE, i + 2) # 0 THEN i
  ELSE FirstFenceOpen(s, i + 1)

HasFencedBlock(s) == FirstFenceOpen(s, 1) # 0

FencedInterior(s) ==
  LET i == FirstFenceOpen(s, 1)
  IN Slice(s, i + 2, Find(s, FENCE, i + 2) - 1)

FencedExample ==
  <<"here", " ", "is", " ", "it", " ", FENCE, "json", NL,
    "{", DQ, "a", DQ, ":", " ", "1", ",", "}", NL, FENCE, " ", "done">>

ExtractionOver ==
  \/ pc = "repair"
  \/ fn = "market" /\ pc = "done" /\ span \in {"no_brace", "unbalanced"}

C6_FencedPriority ==
  /\ (/\ fn \in {"credit", "market"} /\ input.k = "text"
      /\ HasFencedBlock(input.s) /\ ExtractionOver)
       => (pc = "repair" /\ Strip(text) = Strip(FencedInterior(input.s)))
  /\ (/\ fn \in {"credit", "market"} /\ input.k = "text"
      /\ input.s = FencedExample /\ pc = "done")
       => decoded = Decoded(Obj("a" :> Num(1)))

\* C7: the balanced-brace scan of parse_platform_analysis: the span starts at the
\* first "{" of the text and ends at the first later character at which the depth
\* is back to zero, so the span holds as many "{" as "}" and no proper prefix of it
\* does; without a "{", or if the depth never returns to zero, extraction fails
\* and no decode is attempted.
RECURSIVE Count(_, _, _, _)
Count(s, c, a, b) ==
  IF a > b THEN 0 ELSE (IF s[a] = c THEN 1 ELSE 0) + Count(s, c, a + 1, b)

Depth(s, a, b) == Count(s, "{", a, b) - Count(s, "}", a, b)

\* the text the scan reads
Scanned == StripFences(input.s)

FirstBrace(s, a) == a \in 1..Len(s) /\ s[a] = "{" /\ \A i \in 1..(a - 1) : s[i] # "{"

UnbalancedExample ==
  <<"{", DQ, "a", DQ, ":", " ", "{", DQ, "b", DQ, ":", " ", "1", "}">>

ScanDone ==
  /\ fn = "market"
  /\ \/ pc = "repair"
     \/ pc = "done" /\ span \in {"no_brace", "unbalanced"}

C7_BalancedScan ==
  ScanDone =>
    /\ pc = "repair" =>
         \E a \in 1..Len(Scanned) : \E b \in a..Len(Scanned) :
           /\ FirstBrace(Scanned, a)
           /\ text = SubSeq(Scanned, a, b)
           /\ Depth(Scanned, a, b) = 0
           /\ \A k \in a..(b - 1) : Depth(Scanned, a, k) # 0
    /\ pc = "done" =>
         /\ \A a \in 1..Len(Scanned) :
              FirstBrace(Scanned, a) => \A b \in a..Len(Scanned) : Depth(Scanned, a, b) # 0
         /\ decoded = NotDecoded
         /\ result = Return(EmptyDict)
    /\ input.s = UnbalancedExample => (pc = "done" /\ span = "unbalanced")

\* a nested span was cut out of a longer text
C7_Witness ==
  /\ fn = "market" /\ pc = "repair"
  /\ Count(text, "{", 1, Len(text)) >= 2
  /\ Len(text) < Len(Scanned)


(***************************************************************************)
(* Properties of analyze_product and main (specification SpecRank).        *)
(***************************************************************************)
\* the position of a name in the discovered list
Position(names, n) == CHOOSE i \in 1..Len(names) : names[i] = n

\* the platforms of a result of analyze_product
PlatformsOf(r) == r.val.m["platforms"].a

\* C8: stable ranking: the list analyze_product returns is in ascending rank order,
\* and two entities of equal rank keep the relative order they have in the discovered
\* list; discovered [A, B, C] with only B analysed, at rank 2, gives [B, A, C].
C8_StableRanking ==
  (rpc \in {"returned", "main_done"} /\ final_results.kind = "return") =>
    LET out == PlatformsOf(final_results)
    IN /\ \A i, j \in 1..Len(out) :
            i < j =>
              /\ RankOf(out[i]) <= RankOf(out[j])
              /\ RankOf(out[i]) = RankOf(out[j]) =>
                   Position(platforms, NameOf(out[i])) < Position(platforms, NameOf(out[j]))
       /\ (/\ platforms = <<"Amazon", "Flipkart", "ONDC Network">>
           /\ analysis = Obj("platform_analysis" :> Obj("Flipkart" :> Obj("rank" :> Num(2)))))
            => [i \in 1..Len(out) |-> NameOf(out[i])] = <<"Flipkart", "Amazon", "ONDC Network">>

\* the sort moved an entity and left ties, at the sentinel and below it
C8_Witness ==
  /\ rpc = "returned" /\ final_results.kind = "return"
  /\ LET out == PlatformsOf(final_results)
     IN /\ [i \in 1..Len(out) |-> NameOf(out[i])] # platforms
        /\ \E i, j \in 1..Len(out) : i < j /\ RankOf(out[i]) = 999 /\ RankOf(out[j]) = 999
        /\ Len(out) = Len(platforms)

\* C9: no entity is dropped: for every discovered list and every analysis result
\* (empty, an error map, names missing, rank or score not numeric) the platforms of
\* the result of analyze_product, and of the output of main, have exactly one entry
\* per discovered name.
OnePerName(entries) ==
  /\ Len(entries) = Len(platforms)
  /\ \A i \in 1..Len(platforms) :
       \E j \in 1..Len(entries) : entries[j].m["name"] = Word(platforms[i])

C9_NoEntityDropped ==
  /\ rpc \in {"returned", "raised"} =>
       (final_results.kind = "return" /\ OnePerName(PlatformsOf(final_results)))
  /\ rpc = "main_done" =>
       LET out == JsonLoads(main_output)
       IN /\ out.ok
          /\ IsObj(out.v)
          /\ Has(out.v, "platforms")
          /\ OnePerName(out.v.m["platforms"].a)

\* C10: the analysis entry of a discovered name is looked up by exact, case-sensitive
\* equality of the name; an entity without such an entry has rank 999, score 0, its
\* label fields "Unknown", its free-text fields "N/A" and its array fields empty.
LabelFields ==
  {"gst_taxes", "other_charges", "profit", "final_selling_charge", "commission_fees",
   "target_audience_match", "category_fit", "competition_level", "business_model"}
FreeTextFields ==
  {"reasoning", "bulk_order_benefits", "verification_standards", "recommended_strategy"}
ArrayFields == {"advantages", "disadvantages"}

\* the entity is the synthesized one, its free-text fields holding freeText
Synthesized(e, freeText) ==
  /\ RankOf(e) = 999
  /\ e.m["score"] = Num(0)
  /\ \A f \in LabelFields : e.m[f] = Word("Unknown")
  /\ \A f \in FreeTextFields : e.m[f] = freeText
  /\ \A f \in ArrayFields : e.m[f] = Arr(<< >>)

\* the analysis has no entry under exactly this name
Unmatched(n) ==
  LET pa == Get(analysis, "platform_analysis", EmptyDict)
  IN ~Has(pa, n)

Quantize(mils) ==
  LET low == mils \div 10
      rest == mils % 10
  IN IF rest < 5 THEN low
     ELSE IF rest > 5 THEN low + 1
     ELSE IF low % 2 = 0 THEN low ELSE low + 1

\* one monetary field is quantized
QuantizeAmount ==
  /\ quantized = << >>
  /\ quantized' = <<Quantize(decimal)>>
  /\ UNCHANGED decimal
  /\ UNCHANGED notMoneyVars

InitMoney ==
  /\ decimal \in 0..MaxMils
  /\ quantized = << >>
  /\ TextIdle
  /\ RankIdle
  /\ ApiIdle
  /\ PolicyIdle
  /\ FilesIdle
  /\ ReconIdle
  /\ SupplierIdle
  /\ ProductIdle
  /\ RegionIdle

NextMoney == QuantizeAmount

SpecMoney == InitMoney /\ [][NextMoney]_vars

\* the nearest hundredth, a tie going to the higher one
RoundHalfUp(mils) == (mils + 5) \div 10

\* C11: every monetary field of an invoice record is quantized to 2 decimal places
\* with round-half-up: an amount exactly halfway between two cents goes to the
\* higher cent.
C11_RoundHalfUp == quantized # << >> => quantized = <<RoundHalfUp(decimal)>>


(***************************************************************************)
(* Tax inference of parse_invoice_information (specification Spec).        *)
(***************************************************************************)
\* the invoices parse_invoice_information has returned a record for
ReturnedInvoices ==
  IF fn = "invoice" /\ result.kind = "return" THEN NormalizedData ELSE {}

\* total_amount minus the sum of the line item amounts of a record
DifferenceOf(record) ==
  record.m["total_amount"].n - SumAmounts(record.m["line_items"].a, 1)

\* neither amount was provided as a non-zero value
BothZero(data) ==
  /\ ToDecimal(Get(data, "tax_amount", Num(0))).n = 0
  /\ ToDecimal(Get(data, "extra_charges", Num(0))).n = 0

VatExample ==
  Obj(("total_amount" :> Num(1000))
   @@ ("line_items" :> Arr(<<Item(Word("widget"), Num(900))>>))
   @@ ("small_analysis" :> Word("VAT")))

\* C12: when tax_amount and extra_charges are both zero after normalization and
\* total_amount minus the sum of the line items is not zero, the whole difference
\* goes to tax_amount if the lower-cased serialized record contains "tax", "vat",
\* "gst" or "sales tax", and to extra_charges otherwise; the other one stays 0
\* (total 1000, items 900, "VAT" in the text: tax_amount 100, extra_charges 0).
C12_TaxInference ==
  \A data \in ReturnedInvoices :
    LET record == result.val
        difference == DifferenceOf(record)
    IN /\ (BothZero(data) /\ difference # 0) =>
            IF Mentions(Dumps(data), TaxWords)
            THEN record.m["tax_amount"] = Num(difference)
                 /\ record.m["extra_charges"] = Num(0)
            ELSE record.m["extra_charges"] = Num(difference)
                 /\ record.m["tax_amount"] = Num(0)
       /\ data = VatExample =>
            record.m["tax_amount"] = Num(100) /\ record.m["extra_charges"] = Num(0)

\* the difference of the example went to tax_amount
C12_Witness ==
  /\ VatExample \in ReturnedInvoices
  /\ result.val.m["tax_amount"] = Num(100)

\* the difference went to extra_charges, no keyword being in the record
C12_WitnessExtra ==
  \E data \in ReturnedInvoices :
    /\ ~Mentions(Dumps(data), TaxWords)
    /\ result.val.m["extra_charges"].n # 0
    /\ ~Has(data, "extra_charges")


\* the amounts as lines 184-185 normalize them from the decoded record
NormalizedTax(data) == Num(ToDecimal(Get(data, "tax_amount", Num(0))).n)
NormalizedExtra(data) == Num(ToDecimal(Get(data, "extra_charges", Num(0))).n)

\* the sum of the amounts of every line item of the decoded record
RECURSIVE SumDecoded(_, _)
SumDecoded(items, i) ==
  IF i > Len(items) THEN 0
  ELSE ToDecimal(Get(items[i], "amount", Num(0))).n + SumDecoded(items, i + 1)

DecodedDifference(data) ==
  ToDecimal(Get(data, "total_amount", Num(0))).n
  - SumDecoded(Iterate(Get(data, "line_items", Arr(<< >>))).items, 1)

Untouched(data) ==
  /\ result.val.m["tax_amount"] = NormalizedTax(data)
  /\ result.val.m["extra_charges"] = NormalizedExtra(data)

\* C23 as stated, the line items being those of the decoded record: when one of
\* tax_amount and extra_charges is non-zero after normalization, or total_amount
\* equals the sum of the line item amounts, no inference is made and both amounts
\* are returned as normalized.
C23_FrameOfInference ==
  \A data \in ReturnedInvoices :
    (~BothZero(data) \/ DecodedDifference(data) = 0) => Untouched(data)

\* C23, the line items being those of the returned record (the ones with a
\* non-blank description): when one of tax_amount and extra_charges is non-zero
\* after normalization, or total_amount equals the sum of the returned line item
\* amounts, no inference is made and both amounts are returned as normalized.
C23_FrameOfInferenceReturnedItems ==
  \A data \in ReturnedInvoices :
    (~BothZero(data) \/ DifferenceOf(result.val) = 0) => Untouched(data)

\* a record with a non-zero tax_amount and a gap between total and items
C23_Witness ==
  \E data \in ReturnedInvoices :
    /\ ~BothZero(data)
    /\ DifferenceOf(result.val) # 0
    /\ result.val.m["tax_amount"] = Num(10)

\* C25: the keyword scan covers the field names of the serialized record: for a
\* decoded invoice that has the key tax_amount (even with the value 0) a non-zero
\* inferred difference goes to tax_amount, never to extra_charges; extra_charges
\* gets the difference only when no keyword occurs in the serialized keys or values.
C25_KeysAreScanned ==
  \A data \in ReturnedInvoices :
    (BothZero(data) /\ DifferenceOf(result.val) # 0) =>
      /\ Has(data, "tax_amount") =>
           /\ result.val.m["tax_amount"] = Num(DifferenceOf(result.val))
           /\ result.val.m["extra_charges"] = Num(0)
      /\ result.val.m["extra_charges"] # Num(0) =>
           /\ \A k \in DOMAIN data.m : Lower(k) \notin TaxWords
           /\ ~Mentions(DumpsValues(data.m, SetToSeq(DOMAIN data.m)), TaxWords)

\* the key tax_amount, with the value 0, is the only keyword of the record
C25_Witness ==
  \E data \in ReturnedInvoices :
    /\ Has(data, "tax_amount")
    /\ ~Mentions(DumpsValues(data.m, SetToSeq(DOMAIN data.m)), TaxWords)
    /\ BothZero(data)
    /\ result.val.m["tax_amount"].n # 0


(***************************************************************************)
(* The endpoints: credit_score_api.py, invoice_api_2.py, market_api.py.    *)
(* The environment holds the API keys.  A response model is a pydantic     *)
(* BaseModel: building it from a dict fails when a required field is       *)
(* missing or a value has not the declared type, and keeps the declared    *)
(* fields only.                                                            *)
(***************************************************************************)
FloatT == [k |-> "float"]
IntT == [k |-> "int"]
StrT == [k |-> "str"]
ListOf(of) == [k |-> "list", of |-> of]
DictOf(of) == [k |-> "dict", of |-> of]
OptionalT(of) == [k |-> "optional", of |-> of]
ModelT(fields) == [k |-> "model", fields |-> fields]

Invalid == [ok |-> FALSE]
Valid(v) == [ok |-> TRUE, v |-> v]

\* the value a field of the declared type takes from v, if v is valid for it
RECURSIVE Validate(_, _)
Validate(type, v) ==
  CASE type.k \in {"float", "int"} ->
         IF v.t = "num" THEN Valid(v)
         ELSE IF v.t = "str" /\ StringToNumber(Strip(v.s)).ok
              THEN Valid(Num(StringToNumber(Strip(v.s)).n))
              ELSE Invalid
    [] type.k = "str" -> IF v.t = "str" THEN Valid(v) ELSE Invalid
    [] type.k = "optional" -> IF v.t = "null" THEN Valid(v) ELSE Validate(type.of, v)
    [] type.k = "list" ->
         IF v.t = "arr" /\ \A i \in 1..Len(v.a) : Validate(type.of, v.a[i]).ok
         THEN Valid(Arr([i \in 1..Len(v.a) |-> Validate(type.of, v.a[i]).v]))
         ELSE Invalid
    [] type.k = "dict" ->
         IF v.t = "obj" /\ \A j \in DOMAIN v.m : Validate(type.of, v.m[j]).ok
         THEN Valid(Obj([j \in DOMAIN v.m |-> Validate(type.of, v.m[j]).v]))
         ELSE Invalid
    [] type.k = "model" ->
         IF /\ v.t = "obj"
            /\ \A f \in DOMAIN type.fields :
                 IF Has(v, f) THEN Validate(type.fields[f], v.m[f]).ok
                 ELSE type.fields[f].k = "optional"
         THEN Valid(Obj([f \in DOMAIN type.fields |->
                           IF Has(v, f) THEN Validate(type.fields[f], v.m[f]).v
                           ELSE Null]))
         ELSE Invalid

\* credit_score_api.py, lines 35-63
FactorBreakdown ==
  ModelT(("actual_value" :> FloatT) @@ ("individual_score" :> FloatT)
      @@ ("weighted_score" :> FloatT) @@ ("weight_percentage" :> IntT)
      @@ ("comment" :> StrT))

DetailedAnalysis ==
  ModelT(("strengths" :> ListOf(StrT)) @@ ("weaknesses" :> ListOf(StrT))
      @@ ("risk_assessment" :> StrT) @@ ("creditworthiness_summary" :> ListOf(StrT)))

Recommendations ==
  ModelT(("immediate_actions" :> ListOf(StrT)) @@ ("long_term_improvements" :> ListOf(StrT))
      @@ ("priority_focus_areas" :> ListOf(StrT)))

CreditScoreAnalysis ==
  ModelT(("final_weighted_credit_score" :> FloatT) @@ ("score_category" :> StrT)
      @@ ("factor_breakdown" :> DictOf(FactorBreakdown))
      @@ ("detailed_analysis" :> DetailedAnalysis)
      @@ ("recommendations" :> Recommendations))

CreditScoreResponse ==
  ModelT(("credit_score_analysis" :> CreditScoreAnalysis) @@ ("timestamp" :> StrT)
      @@ ("api_model" :> StrT))

\* the responses of an endpoint
NoResponse == [status |-> 0]
Ok(body) == [status |-> 200, body |-> body]
HttpError(status) == [status |-> status]

\* the response built from the JSON text the core returned (credit_score_api.py,
\* lines 94-101): an undecodable text or an invalid dict is a 500
Respond(model, result_json) ==
  LET result_dict == JsonLoads(result_json)
  IN IF result_dict.ok /\ Validate(model, result_dict.v).ok
     THEN Ok(Validate(model, result_dict.v).v)
     ELSE HttpError(500)

\* ---- credit_score_api.py: calculate_credit_score_api ---------------------

\* a FinancialData, its amounts in hundredths
FinancialData(total_amount, total_amount_pending, total_amount_paid) ==
  [k |-> "financial", total_amount |-> total_amount,
   total_amount_pending |-> total_amount_pending, total_amount_paid |-> total_amount_paid]

\* the distance of pending + paid from the total, in hundredths
Imbalance(financial_dict) ==
  LET d == financial_dict.total_amount_pending + financial_dict.total_amount_paid
           - financial_dict.total_amount
  IN IF d < 0 THEN 0 - d ELSE d

\* lines 78-87 and 100-101: the HTTPException(400) of line 84 is raised inside the
\* try, and the except of line 100 turns it into a 500.  The comparison is made on
\* floats: at a distance of exactly 0.01 their rounding decides it
CreditApiCheck ==
  /\ endpoint = "credit" /\ apc = "check"
  /\ \E violated \in BOOLEAN :
       /\ Imbalance(request) > 1 => violated
       /\ Imbalance(request) < 1 => ~violated
       /\ IF violated
          THEN response' = HttpError(500) /\ apc' = "responded"
          ELSE apc' = "call" /\ UNCHANGED response
  /\ UNCHANGED <<endpoint, request, llm>>
  /\ UNCHANGED notApiVars

\* credit_score.py, main (lines 240-248) and calculate_credit_score (lines
\* 104-130): the model's text goes to parse_credit_score_response; a failed call
\* gives the empty dict
CreditApiCall ==
  /\ endpoint = "credit" /\ apc = "call"
  /\ IF llm = "fails"
     THEN result' = Return(EmptyDict) /\ pc' = "done"
     ELSE pc' = "start" /\ UNCHANGED result
  /\ apc' = "core"
  /\ UNCHANGED <<fn, input, text, span, decoded>>
  /\ UNCHANGED <<endpoint, request, llm, response>>
  /\ UNCHANGED notTextApiVars

\* structure_credit_score_json (credit_score.py, lines 211-225)
structure_credit_score_json(credit_analysis) ==
  Dumps(Obj(("credit_score_analysis" :> credit_analysis)
         @@ ("timestamp" :> Word("generated"))
         @@ ("api_model" :> Word("meta-llama/llama-4-scout-17b-16e-instruct"))))

\* credit_score.py lines 249-251 and credit_score_api.py lines 90-101
CreditApiRespond ==
  /\ endpoint = "credit" /\ apc = "core" /\ pc = "done"
  /\ response' = Respond(CreditScoreResponse, structure_credit_score_json(result.val))
  /\ apc' = "responded"
  /\ UNCHANGED <<endpoint, request, llm>>
  /\ UNCHANGED notApiVars


\* ---- invoice_api_2.py: extract_invoice, for an upload with an image name --

\* invoice_api_2.py, lines 27-45
LineItem == ModelT(("description" :> StrT) @@ ("amount" :> FloatT))

InvoiceDetails ==
  ModelT(("invoice_number" :> StrT) @@ ("client" :> StrT) @@ ("date" :> StrT)
      @@ ("payment_terms" :> StrT) @@ ("industry" :> StrT) @@ ("total_amount" :> FloatT)
      @@ ("currency" :> StrT) @@ ("line_items" :> ListOf(LineItem))
      @@ ("tax_amount" :> OptionalT(FloatT)) @@ ("extra_charges" :> OptionalT(FloatT)))

InvoiceResponse ==
  ModelT(("invoice_details" :> InvoiceDetails) @@ ("total_line_items" :> IntT))

\* invoice_2.py, main (lines 239-247) and extract_invoice_details (lines 88-123):
\* the model's text goes to parse_invoice_information; a failed call gives {}
InvoiceApiCall ==
  /\ endpoint = "invoice" /\ apc = "call"
  /\ IF llm = "fails"
     THEN result' = Return(EmptyDict) /\ pc' = "done"
     ELSE pc' = "start" /\ UNCHANGED result
  /\ apc' = "core"
  /\ UNCHANGED <<fn, input, text, span, decoded>>
  /\ UNCHANGED <<endpoint, request, llm, response>>
  /\ UNCHANGED notTextApiVars

\* what extract_invoice_details returns: the except of line 121 turns what
\* parse_invoice_information raises into {}
InvoiceDetailsOf(r) == IF r.kind = "raise" THEN EmptyDict ELSE r.val

\* structure_invoice_json (invoice_2.py, lines 212-225)
structure_invoice_json(invoice_info) ==
  Dumps(Obj(("invoice_details" :> invoice_info)
         @@ ("total_line_items" :> Num(Len(Get(invoice_info, "line_items", Arr(<< >>)).a)))))

\* invoice_2.py line 248 and invoice_api_2.py lines 58-63, 80-84
InvoiceApiRespond ==
  /\ endpoint = "invoice" /\ apc = "core" /\ pc = "done"
  /\ response' = Respond(InvoiceResponse, structure_invoice_json(InvoiceDetailsOf(result)))
  /\ apc' = "responded"
  /\ UNCHANGED <<endpoint, request, llm>>
  /\ UNCHANGED notApiVars

\* ---- market_api.py: analyze_product_api -----------------------------------

\* market_api.py, lines 41-64
PlatformAnalysis ==
  ModelT(("name" :> StrT) @@ ("homepage" :> StrT) @@ ("rank" :> IntT) @@ ("score" :> FloatT)
      @@ ("reasoning" :> StrT) @@ ("advantages" :> ListOf(StrT))
      @@ ("disadvantages" :> ListOf(StrT)) @@ ("target_audience_match" :> StrT)
      @@ ("category_fit" :> StrT) @@ ("competition_level" :> StrT)
      @@ ("recommended_strategy" :> StrT))

OverallRecommendations ==
  ModelT(("top_3_platforms" :> ListOf(StrT)) @@ ("diversification_strategy" :> StrT)
      @@ ("pricing_considerations" :> StrT) @@ ("marketing_focus" :> StrT))

AnalysisResponse ==
  ModelT(("platforms" :> ListOf(PlatformAnalysis))
      @@ ("overall_recommendations" :> OverallRecommendations))

\* lines 84-92, on the text main of market.py returned
MarketApiRespond ==
  /\ endpoint = "market" /\ apc = "core" /\ rpc = "main_done"
  /\ response' = Respond(AnalysisResponse, main_output)
  /\ apc' = "responded"
  /\ UNCHANGED <<endpoint, request, llm>>
  /\ UNCHANGED notApiVars

(***************************************************************************)
(* The requests of the endpoints and the texts of the language model.      *)
(***************************************************************************)
\* total 50000 and paid 10000, with a pending amount that fits, is one or two
\* hundredths above, or is short
FinancialRequests ==
  {FinancialData(5000000, pending, 1000000) :
     pending \in {4000000, 4000001, 4000002, 3999000}}

FullRecommendations ==
  Obj(("top_3_platforms" :> Arr(<<Word("Flipkart")>>))
   @@ ("diversification_strategy" :> Word("two platforms"))
   @@ ("pricing_considerations" :> Word("match"))
   @@ ("marketing_focus" :> Word("search")))

\* what analyze_platform_suitability returns to the endpoint's call: a decoded
\* analysis, with or without the recommendations, the empty dict of a failed
\* parse, or the error map of a failed call
ApiAnalyses ==
  {Obj(("platform_analysis" :> pa) @@ ("overall_recommendations" :> FullRecommendations)) :
     pa \in {Obj("Flipkart" :> Obj("rank" :> Num(2))),
             Obj("Amazon" :> Obj(("rank" :> Num(1)) @@ ("gst_taxes" :> Word("18%")))),
             Obj("Amazon" :> Obj("rank" :> Word("first"))),
             EmptyDict}}
  \cup {EmptyDict,
        Obj("error" :> Word("Analysis failed")),
        Obj("platform_analysis" :> Obj("Flipkart" :> Obj("rank" :> Num(2)))),
        Obj(("platform_analysis" :> Obj("Flipkart" :> Obj("rank" :> Num(2))))
         @@ ("overall_recommendations" :> Obj("top_3_platforms" :> Arr(<<Word("Flipkart")>>))))}

InitApi ==
  /\ endpoint \in {"credit", "invoice", "market"}
  /\ response = NoResponse
  /\ MoneyIdle
  /\ RegionIdle
  /\ ProductIdle
  /\ SupplierIdle
  /\ ReconIdle
  /\ FilesIdle
  /\ PolicyIdle
  /\ IF endpoint = "market"
     THEN /\ request = [k |-> "product"]
          /\ llm = "ok"
          /\ apc = "core"
          /\ platforms \in DiscoveredLists
          /\ analysis \in ApiAnalyses
          /\ idx = 1
          /\ platforms_list = << >>
          /\ rpc = "loop"
          /\ final_results = NoResult
          /\ main_output = << >>
          /\ TextIdle
     ELSE /\ IF endpoint = "credit"
             THEN request \in FinancialRequests /\ apc = "check"
             ELSE request = [k |-> "image"] /\ apc = "call"
          /\ llm \in {"ok", "fails"}
          /\ fn = endpoint
          /\ \E s \in SampleTexts : input = TextInput(s) /\ text = s
          /\ pc = "idle"
          /\ span = "none"
          /\ decoded = NotDecoded
          /\ result = NoResult
          /\ RankIdle

NextApi ==
  \/ CreditApiCheck
  \/ CreditApiCall
  \/ CreditGuard
  \/ CreditExtract
  \/ CreditRepair
  \/ CreditDecode
  \/ CreditApiRespond
  \/ InvoiceApiCall
  \/ InvoiceGuard
  \/ InvoiceExtract
  \/ InvoiceRepair
  \/ InvoiceDecode
  \/ InvoiceNormalize
  \/ InvoiceApiRespond
  \/ AnalyzeLoop
  \/ AnalyzeReturn
  \/ MainReturn
  \/ MarketApiRespond

SpecApi == InitApi /\ [][NextApi]_vars


(***************************************************************************)
(* Properties of the endpoints (specification SpecApi).                    *)
(***************************************************************************)
Responded == apc = "responded"

\* C13: a business-rule violation is flagged, not rejected: when pending + paid
\* differs from the total by more than 0.01, the credit-score flow still returns a
\* complete record and raises no error.
C13_FlaggedNotRejected ==
  (endpoint = "credit" /\ Responded /\ Imbalance(request) > 1) =>
    (response.status = 200 /\ Has(response.body, "credit_score_analysis"))

\* C16: malformed model output never surfaces as a failure of the service: for any
\* text of the language model, or a failed model call, the credit-score and the
\* product-analysis endpoints answer with a schema-conformant record, not with an
\* error response.
ValidRequest == endpoint = "credit" => Imbalance(request) = 0

C16_NoErrorResponse ==
  (endpoint \in {"credit", "market"} /\ Responded /\ ValidRequest) =>
    response.status = 200

\* C18: the API layer drops no declared field: every field of the record the core
\* produced (for invoices pending_amount and small_analysis too, for platform
\* entries gst_taxes, other_charges, profit, final_selling_charge, commission_fees
\* and business_model too) is in the endpoint's response.
FieldsKept(core, sent) == DOMAIN core.m \subseteq DOMAIN sent.m

C18_NoFieldDropped ==
  (Responded /\ response.status = 200) =>
    /\ endpoint = "invoice" =>
         FieldsKept(InvoiceDetailsOf(result), response.body.m["invoice_details"])
    /\ endpoint = "market" =>
         \A i \in 1..Len(PlatformsOf(final_results)) :
           FieldsKept(PlatformsOf(final_results)[i], response.body.m["platforms"].a[i])


(***************************************************************************)
(* Policy generation (policy_generator.py): call_groq_for_policy retries   *)
(* the external call, generate_policies stores what it returns per type.   *)
(***************************************************************************)
MaxRetries == 2
MaxTypes == 2

\* generate_policies passes no max_retries: the parameter's default applies
DefaultMaxRetries == 2

PolicyTypeNames == {"privacy_policy", "terms_of_service"}

\* request.policy_types: a list with at least one item
PolicyTypeLists == SeqsUpTo(PolicyTypeNames, MaxTypes) \ {<< >>}

\* extract_json_block: the greedy brace match, else the stripped text
extract_json_block(s) ==
  LET match == GreedyBraceSearch(s)
  IN IF match.found THEN match.group ELSE Strip(s)

PolicyDocument(policy_type, content) ==
  Obj([policy_type |-> Str(<<policy_type>>), content |-> Str(content)])

\* the record substituted when every attempt failed
Placeholder(policy_type) ==
  PolicyDocument(policy_type, <<"Failed to generate", policy_type, "Please retry later.">>)

\* message contents the external call can come back with
ReplyTexts ==
  {Dumps(PolicyDocument("privacy_policy", <<"text">>)),
   Dumps(Obj([content |-> Str(<<"text">>)])),
   Dumps(EmptyDict),
   <<"null">>,
   <<"5">>,
   <<"[", "1", "]">>,
   <<"sorry">>,
   <<" ">>,
   << >>}

\* the external call raises, or yields a message content
Replies == {[raised |-> TRUE, content |-> << >>]}
           \cup {[raised |-> FALSE, content |-> c] : c \in ReplyTexts}

\* a try block that takes only a decoded object for a result
TryOnceObjectsOnly(reply) ==
  IF reply.raised THEN Failed
  ELSE LET response_text == Strip(reply.content)
           policy == JsonLoads(extract_json_block(response_text))
       IN IF response_text = << >> THEN Failed
          ELSE IF policy.ok /\ IsObj(policy.v) THEN policy ELSE Failed

\* one pass through the try block: the decoded value, or a failure that
\* the except clause catches
TryOnce(reply) ==
  IF reply.raised THEN Failed
  ELSE LET response_text == Strip(reply.content)
       IN IF response_text = << >> THEN Failed
          ELSE JsonLoads(extract_json_block(response_text))

\* the test of the except clause
LastAttemptEarly(a, n) == a + 1 = n

LastAttempt(a, n) == a = n

\* bool(x) of a decoded value
Truthy(v) ==
  CASE v.t = "null" -> FALSE
    [] v.t = "bool" -> v.b
    [] v.t = "num" -> v.n # 0
    [] v.t = "str" -> v.s # << >>
    [] v.t = "arr" -> v.a # << >>
    [] v.t = "obj" -> DOMAIN v.m # {}

ptype == policy_types[ptype_idx]

\* a loop that goes on where the call for the previous type stopped
CarriedAttempt == attempt

\* range(max_retries + 1) starts every call of call_groq_for_policy at 0
FirstAttempt == 0

\* one iteration of `for attempt in range(max_retries + 1)`; when the range
\* is used up the function ends without a return statement and yields None
PolicyAttempt ==
  /\ ppc = "loop"
  /\ attempt < max_retries + 1
  /\ \E reply \in Replies :
       LET r == TryOnce(reply)
       IN /\ calls' = calls + 1
          /\ external_calls' = external_calls + 1
          /\ chat_completion' = reply
          /\ IF r.ok
             THEN /\ policy_json' = Return(r.v)
                  /\ ppc' = "returned"
                  /\ UNCHANGED <<attempt, failed>>
             ELSE /\ failed' = failed + 1
                  /\ IF LastAttempt(attempt, max_retries)
                     THEN /\ policy_json' = Return(Placeholder(ptype))
                          /\ ppc' = "returned"
                          /\ UNCHANGED attempt
                     ELSE IF attempt + 1 < max_retries + 1
                     THEN /\ attempt' = attempt + 1
                          /\ UNCHANGED <<policy_json, ppc>>
                     ELSE /\ policy_json' = Return(Null)
                          /\ ppc' = "returned"
                          /\ UNCHANGED attempt
  /\ UNCHANGED <<caller, policy_types, ptype_idx, max_retries, generated_policies>>
  /\ UNCHANGED notPolicyVars

\* generate_policies: keep a truthy return value under its type, then call
\* for the next type or return the results
PolicyStore ==
  /\ ppc = "returned"
  /\ caller = "generate_policies"
  /\ generated_policies' = IF Truthy(policy_json.val)
                           THEN Put(generated_policies, ptype, policy_json.val)
                           ELSE generated_policies
  /\ IF ptype_idx < Len(policy_types)
     THEN /\ ptype_idx' = ptype_idx + 1
          /\ attempt' = FirstAttempt
          /\ calls' = 0
          /\ failed' = 0
          /\ policy_json' = NoResult
          /\ ppc' = "loop"
     ELSE /\ ppc' = "done"
          /\ UNCHANGED <<ptype_idx, attempt, calls, failed, policy_json>>
  /\ UNCHANGED <<caller, policy_types, max_retries, chat_completion, external_calls>>
  /\ UNCHANGED notPolicyVars

\* a direct call of call_groq_for_policy with max_retries = N >= 0, or a
\* generate_policies request
InitPolicy ==
  /\ \/ /\ caller = "direct"
        /\ policy_types \in {<<t>> : t \in PolicyTypeNames}
        /\ max_retries \in 0..MaxRetries
     \/ /\ caller = "generate_policies"
        /\ policy_types \in PolicyTypeLists
        /\ max_retries = DefaultMaxRetries
  /\ ptype_idx = 1
  /\ attempt = 0
  /\ calls = 0
  /\ chat_completion = [raised |-> FALSE, content |-> << >>]
  /\ external_calls = 0
  /\ failed = 0
  /\ policy_json = NoResult
  /\ generated_policies = << >>
  /\ ppc = "loop"
  /\ TextIdle
  /\ RankIdle
  /\ MoneyIdle
  /\ RegionIdle
  /\ ProductIdle
  /\ SupplierIdle
  /\ ReconIdle
  /\ FilesIdle
  /\ ApiIdle

NextPolicy == PolicyAttempt \/ PolicyStore

SpecPolicy == InitPolicy /\ [][NextPolicy]_vars

\* the code runs on: every external call comes back, with a message or an
\* exception, and the statement after it is executed
SpecPolicyLive == SpecPolicy /\ WF_vars(NextPolicy)


(***************************************************************************)
(* Claims about policy generation.                                         *)
(***************************************************************************)
CallReturned == ppc = "returned"

\* C14: bounded retry: with max_retries = N >= 0 call_groq_for_policy makes at
\* most N+1 external calls; it returns the placeholder record only after exactly
\* N+1 attempts that all failed, and when every attempt failed it returns the
\* placeholder, never an exception or nothing.
C14_BoundedRetry ==
  /\ calls <= max_retries + 1
  /\ policy_json.kind # "raise"
  /\ CallReturned =>
       /\ policy_json.kind = "return"
       /\ policy_json.val = Placeholder(ptype) <=>
            (calls = max_retries + 1 /\ failed = calls)

C14_Witness ==
  /\ CallReturned
  /\ max_retries = 2
  /\ calls = 3
  /\ failed = 3
  /\ policy_json = Return(Placeholder(ptype))

\* the reply is a message that is not empty and decodes
Usable(reply) ==
  /\ ~reply.raised
  /\ Strip(reply.content) # << >>
  /\ JsonLoads(extract_json_block(Strip(reply.content))).ok

ValueOf(reply) == JsonLoads(extract_json_block(Strip(reply.content))).v

\* C21: the first attempt whose response is non-empty and decodes ends the loop:
\* the value decoded from it is returned and no call follows; attempt k+1 is
\* made only if the attempts 1..k all failed.
C21_FirstSuccessEndsLoop ==
  /\ failed \in {calls - 1, calls} \cap Nat
  /\ (ppc = "loop" /\ calls > 0) => (failed = calls /\ ~Usable(chat_completion))
  /\ (CallReturned /\ Usable(chat_completion)) =>
       (failed = calls - 1 /\ policy_json = Return(ValueOf(chat_completion)))
  /\ (CallReturned /\ failed = calls - 1) => Usable(chat_completion)

C21_Witness ==
  /\ CallReturned
  /\ calls = 2
  /\ failed = 1
  /\ Usable(chat_completion)
  /\ policy_json = Return(Num(5))

\* every requested type was called for, in request order
PolicyRequestOver ==
  \/ ppc = "done" /\ ptype_idx = Len(policy_types)
  \/ caller = "direct" /\ CallReturned

\* C22: generate_policies handles the requested types one after another in
\* request order, each with its own retry budget: the loop for a type starts at
\* attempt 0 whatever happened for the types before it, the external calls of a
\* request number at most (requested types) * (max_retries + 1), and the request
\* terminates.
C22_IndependentBudgets ==
  /\ [](/\ external_calls <= Len(policy_types) * (max_retries + 1)
        /\ external_calls <= (ptype_idx - 1) * (max_retries + 1) + calls
        /\ ppc = "loop" => (attempt = calls /\ attempt <= max_retries)
        /\ DOMAIN generated_policies \subseteq {policy_types[i] : i \in 1..ptype_idx})
  /\ <>PolicyRequestOver

C22_Witness ==
  /\ caller = "generate_policies"
  /\ ptype_idx = 2
  /\ CallReturned
  /\ calls = max_retries + 1
  /\ failed = calls
  /\ external_calls = 2 * (max_retries + 1)

\* C15: for every requested policy type and every response of the language
\* model, generated_policies holds an entry for the type that is a
\* PolicyDocument: an object with a string policy_type and a string content.
IsPolicyDocument(v) ==
  /\ IsObj(v)
  /\ Has(v, "policy_type") /\ v.m["policy_type"].t = "str"
  /\ Has(v, "content") /\ v.m["content"].t = "str"

C15_PolicyDocumentPerType ==
  ppc = "done" =>
    \A i \in 1..Len(policy_types) :
      /\ policy_types[i] \in DOMAIN generated_policies
      /\ IsPolicyDocument(generated_policies[policy_types[i]])


(***************************************************************************)
(* Two uploads in flight (invoice_api_2.py): each invocation of            *)
(* process_single_invoice saves its upload under temp_<filename> in the    *)
(* working directory, has the file read back by encode_image_to_base64,    *)
(* and removes it.  The save of lines 54-55 and the read of invoice_2.py   *)
(* lines 28-29 are taken as one step each.                                 *)
(***************************************************************************)
Handlers == {1, 2}

Filename(stem, ext) == [stem |-> stem, ext |-> ext]

Filenames == {Filename("a", ".png"), Filename("b", ".png"), Filename("notes", ".txt")}

ImageFiles == {"scan of invoice 1", "scan of invoice 2"}

\* UploadFile: the client's filename and the uploaded bytes
Uploads == {[filename |-> f, file |-> c] : f \in Filenames, c \in ImageFiles}

\* filename.lower().endswith(('.png', '.jpg', '.jpeg'))
IsImageName(filename) == filename.ext \in {".png", ".jpg", ".jpeg"}

temp_image_path(h) == Concat(<<"temp_", image[h].filename.stem, image[h].filename.ext>>)

Unread == [k |-> "unread"]
None == [k |-> "none"]
Base64(c) == [k |-> "b64", of |-> c]

\* os.remove(path)
Unlink(d, path) == [q \in DOMAIN d \ {path} |-> d[q]]

\* the extension test; a refused name raises before the try block
CheckName(h) ==
  /\ hpc[h] = "start"
  /\ hpc' = [hpc EXCEPT ![h] = IF IsImageName(image[h].filename) THEN "save" ELSE "done"]
  /\ UNCHANGED <<image, disk, base64_image>>
  /\ UNCHANGED notFileVars

\* with open(temp_image_path, "wb") as buffer: shutil.copyfileobj(image.file, buffer)
Save(h) ==
  /\ hpc[h] = "save"
  /\ disk' = Put(disk, temp_image_path(h), image[h].file)
  /\ hpc' = [hpc EXCEPT ![h] = "encode"]
  /\ UNCHANGED <<image, base64_image>>
  /\ UNCHANGED notFileVars

\* encode_image_to_base64(image_path): the bytes on disk, None when open fails
Encode(h) ==
  /\ hpc[h] = "encode"
  /\ base64_image' = [base64_image EXCEPT ![h] =
                        IF temp_image_path(h) \in DOMAIN disk
                        THEN Base64(disk[temp_image_path(h)])
                        ELSE None]
  /\ hpc' = [hpc EXCEPT ![h] = "cleanup"]
  /\ UNCHANGED <<image, disk>>
  /\ UNCHANGED notFileVars

\* finally: if os.path.exists(temp_image_path): os.remove(temp_image_path)
Cleanup(h) ==
  /\ hpc[h] = "cleanup"
  /\ disk' = IF temp_image_path(h) \in DOMAIN disk
             THEN Unlink(disk, temp_image_path(h))
             ELSE disk
  /\ hpc' = [hpc EXCEPT ![h] = "done"]
  /\ UNCHANGED <<image, base64_image>>
  /\ UNCHANGED notFileVars

\* what extract_invoice answers: the details read off the image that was
\* encoded; without an image the core yields {} and the response model fails
ResponseOf(encoded) ==
  IF encoded.k = "b64"
  THEN [status |-> 200, invoice_of |-> encoded.of]
  ELSE [status |-> 500]

InitFiles ==
  /\ image \in [Handlers -> Uploads]
  /\ disk = << >>
  /\ base64_image = [h \in Handlers |-> Unread]
  /\ hpc = [h \in Handlers |-> "start"]
  /\ TextIdle
  /\ RankIdle
  /\ MoneyIdle
  /\ RegionIdle
  /\ ProductIdle
  /\ SupplierIdle
  /\ ReconIdle
  /\ ApiIdle
  /\ PolicyIdle

NextFiles == \E h \in Handlers : CheckName(h) \/ Save(h) \/ Encode(h) \/ Cleanup(h)

SpecFiles == InitFiles /\ [][NextFiles]_vars


(***************************************************************************)
(* Claims about concurrent invocations.                                    *)
(***************************************************************************)
\* the response of an invocation that runs with no other in flight
AloneResponse(upload) ==
  IF IsImageName(upload.filename) THEN ResponseOf(Base64(upload.file)) ELSE [status |-> 500]

\* C17: concurrent invocations are independent: with two invoice extractions in
\* flight, two uploads of the same filename included, every invocation reads back
\* the file it saved itself and answers what it would answer if run alone.
C17_IndependentInvocations ==
  \A h \in Handlers :
    /\ base64_image[h] # Unread => base64_image[h] = Base64(image[h].file)
    /\ hpc[h] = "done" => ResponseOf(base64_image[h]) = AloneResponse(image[h])


(***************************************************************************)
(* Claims comparing the extractors.                                        *)
(***************************************************************************)
RegexExtracted == fn \in {"credit", "invoice"} /\ input.k = "text" /\ pc = "repair"

\* C19: on a text without a fenced block the regex-based extractors select the
\* span of the balanced-brace scan: from the first "{" to the first character
\* where the depth is back at zero (so only the first of two objects), and no
\* span when the depth never returns to zero.
C19_RegexSelectsBalancedSpan ==
  (RegexExtracted /\ ~HasFencedBlock(input.s)) =>
    IF BalancedSpan(input.s).found
    THEN span = "brace" /\ text = BalancedSpan(input.s).group
    ELSE span = "raw"

\* the value json.loads gives for the whole input text
DirectlyDecoded == JsonLoads(input.s)

WellFormedObject == DirectlyDecoded.ok /\ IsObj(DirectlyDecoded.v)

\* C20: round trip on well-formed input: for a text that is already a valid JSON
\* object, objects with "{", "}", "]" or "," inside string values included,
\* parse_platform_analysis returns the value that decoding the text directly
\* gives: the repair removes structural trailing commas only.
C20_RoundTripWellFormed ==
  (fn = "market" /\ input.k = "text" /\ pc = "done" /\ WellFormedObject) =>
    result = Return(DirectlyDecoded.v)


(***************************************************************************)
(* The arithmetic of parse_invoice_information (invoice_2.py, lines        *)
(* 167-208) on Decimal values.  json.loads takes the literal NaN, Decimal  *)
(* of it is the quiet NaN, which quantize and the arithmetic hand on and   *)
(* which compares unequal to everything.  A finite amount is a number of   *)
(* hundredths.                                                             *)
(***************************************************************************)
MaxItems == 2

Dec(n) == [nan |-> FALSE, n |-> n]
NaN == [nan |-> TRUE, n |-> 0]

\* a + b and a - b of two Decimals
DecAdd(a, b) == IF a.nan \/ b.nan THEN NaN ELSE Dec(a.n + b.n)
DecSub(a, b) == IF a.nan \/ b.nan THEN NaN ELSE Dec(a.n - b.n)

\* a == b of two Decimals; a != b is its negation
DecEq(a, b) == ~a.nan /\ ~b.nan /\ a.n = b.n

\* sum(...) over the amounts of the items
RECURSIVE DecSum(_, _)
DecSum(items, i) ==
  IF i > Len(items) THEN Dec(0) ELSE DecAdd(items[i].amount, DecSum(items, i + 1))

\* lines 174-181: the items with a description that is not blank
RECURSIVE DescribedItems(_, _)
DescribedItems(items, i) ==
  IF i > Len(items) THEN << >>
  ELSE (IF Strip(items[i].description) # << >>
        THEN <<[description |-> Strip(items[i].description), amount |-> items[i].amount]>>
        ELSE << >>)
       \o DescribedItems(items, i + 1)

\* float(obj) of convert_decimals: NaN gives nan, the hundredths of the model
\* give the double that stands for the same hundredths
convert_decimals(d) == d

\* lines 167-208 on quantized amounts; keyword is the outcome of the scan of
\* line 194
Reconciled(invoice_data) ==
  LET total_amount == invoice_data.total_amount
      line_items == DescribedItems(invoice_data.line_items, 1)
      tax_amount == invoice_data.tax_amount
      extra_charges == invoice_data.extra_charges
      difference == DecSub(total_amount, DecSum(line_items, 1))
      infer == /\ DecEq(tax_amount, Dec(0)) /\ DecEq(extra_charges, Dec(0))
               /\ ~DecEq(difference, Dec(0))
  IN [total_amount |-> convert_decimals(total_amount),
      line_items |-> [i \in 1..Len(line_items) |->
                        [description |-> line_items[i].description,
                         amount |-> convert_decimals(line_items[i].amount)]],
      tax_amount |-> convert_decimals(IF infer /\ invoice_data.keyword
                                      THEN difference ELSE tax_amount),
      extra_charges |-> convert_decimals(IF infer /\ ~invoice_data.keyword
                                         THEN difference ELSE extra_charges)]

Reconcile ==
  /\ reconciled = << >>
  /\ reconciled' = <<Reconciled(amounts)>>
  /\ UNCHANGED amounts
  /\ UNCHANGED notReconVars

ItemAmounts == {Dec(90), Dec(10), NaN}

InvoiceItems ==
  {[description |-> d, amount |-> a] : d \in {<<"widget">>, <<" ">>}, a \in ItemAmounts}

InitRecon ==
  /\ amounts \in [total_amount : {Dec(0), Dec(90), Dec(100), NaN},
                  tax_amount : {Dec(0), Dec(10), NaN},
                  extra_charges : {Dec(0), Dec(5)},
                  line_items : SeqsUpTo(InvoiceItems, MaxItems),
                  keyword : BOOLEAN]
  /\ reconciled = << >>
  /\ TextIdle
  /\ RankIdle
  /\ MoneyIdle
  /\ RegionIdle
  /\ ProductIdle
  /\ SupplierIdle
  /\ ApiIdle
  /\ PolicyIdle
  /\ FilesIdle

NextRecon == Reconcile

SpecRecon == InitRecon /\ [][NextRecon]_vars


(***************************************************************************)
(* Claims about the reconciliation.                                        *)
(***************************************************************************)
InferenceMade ==
  /\ reconciled # << >>
  /\ DecEq(amounts.tax_amount, Dec(0))
  /\ DecEq(amounts.extra_charges, Dec(0))

\* C24: reconciliation sum: whenever a difference is inferred (tax_amount and
\* extra_charges were both zero), the returned record satisfies tax_amount +
\* extra_charges + the sum of the returned line item amounts = total_amount in
\* exact 2-decimal arithmetic; line items with a blank description are left out
\* of the returned line_items and of the sum.
C24_ReconciliationSum ==
  InferenceMade =>
    LET record == reconciled[1]
    IN /\ DecEq(DecAdd(DecAdd(record.tax_amount, record.extra_charges),
                       DecSum(record.line_items, 1)),
                record.total_amount)
       /\ \A i \in 1..Len(record.line_items) :
            Strip(record.line_items[i].description) # << >>
       /\ Len(record.line_items) =
            Cardinality({i \in 1..Len(amounts.line_items) :
                           Strip(amounts.line_items[i].description) # << >>})


(***************************************************************************)
(* The business-rule check of the credit-score endpoint (SpecApi).         *)
(***************************************************************************)
\* the core was not entered, so no call of the language model was made
NoModelCall == pc = "idle" /\ result = NoResult

\* C26: the business-rule check precedes the model call: when pending + paid
\* differs from the total by more than 0.01 the request is answered with HTTP
\* status 400 and no call of the language model is made for it.
C26_RejectedWith400 ==
  (endpoint = "credit" /\ Responded /\ Imbalance(request) > 1) =>
    (response = HttpError(400) /\ NoModelCall)


(***************************************************************************)
(* raw_test.py: RawMaterialProcurementAnalyzer.discover_suppliers_with_ai, *)
(* from the model's reply on (lines 73-94).                                *)
(***************************************************************************)
MaxReplyNames == 8

\* the keys of known_procurement_platforms (lines 17-34)
known_procurement_platforms ==
  {"IndiaMART", "TradeIndia", "ExportersIndia", "Alibaba India", "Global Sources",
   "Made-in-China", "DHgate", "EC21", "eWorldTrade", "Go4WorldBusiness", "TradeFord",
   "Kompass", "Amazon Business", "Udaan", "Direct Government Suppliers",
   "Local Wholesale Markets"}

EssentialSuppliers == <<"IndiaMART", "TradeIndia", "Amazon Business">>

FallbackSuppliers == <<"IndiaMART", "TradeIndia", "Amazon Business", "Alibaba India", "Udaan">>

\* platforms[:8]
SupplierLimit == 8

\* raw_text[start:end] of lines 81-83: from the first "[" to the last "]"
BracketSlice(s) ==
  LET start == Find(s, "[", 1)
      end == RFind(s, "]", Len(s))
  IN IF start # 0 /\ end > start THEN Slice(s, start, end) ELSE << >>

\* `p in self.known_procurement_platforms` raises for a list or a dict
Unhashable(p) == p.t \in {"arr", "obj"}

\* [p for p in platforms if p in self.known_procurement_platforms]
RECURSIVE KnownOnly(_, _)
KnownOnly(ps, i) ==
  IF i > Len(ps) THEN << >>
  ELSE (IF ps[i].t = "str" /\ Concat(ps[i].s) \in known_procurement_platforms
        THEN <<Concat(ps[i].s)>> ELSE << >>)
       \o KnownOnly(ps, i + 1)

\* lines 87-89: every essential name that is missing is appended
RECURSIVE AppendEssentials(_, _)
AppendEssentials(ps, i) ==
  IF i > Len(EssentialSuppliers) THEN ps
  ELSE AppendEssentials(IF \E j \in 1..Len(ps) : ps[j] = EssentialSuppliers[i]
                        THEN ps
                        ELSE Append(ps, EssentialSuppliers[i]),
                        i + 1)

FirstN(ps, n) == SubSeq(ps, 1, IF Len(ps) < n THEN Len(ps) ELSE n)

discover_suppliers_with_ai(reply) ==
  IF reply.raised THEN FallbackSuppliers
  ELSE LET listed == JsonLoads(BracketSlice(Strip(reply.content)))
       IN IF ~listed.ok \/ listed.v.t # "arr"
             \/ \E i \in 1..Len(listed.v.a) : Unhashable(listed.v.a[i])
          THEN FallbackSuppliers
          ELSE FirstN(AppendEssentials(KnownOnly(listed.v.a, 1), 1), SupplierLimit)

DiscoverSuppliers ==
  /\ suppliers = NoResult
  /\ suppliers' = Return(discover_suppliers_with_ai(raw_text))
  /\ UNCHANGED raw_text
  /\ UNCHANGED notSupplierVars

\* the names the model answers with: two known ones and an unknown one
ReplyNames == {"IndiaMART", "Udaan", "Acme Metals"}

NamesText(names) == Dumps(Arr([i \in 1..Len(names) |-> Str(<<names[i]>>)]))

SupplierReplies ==
  {[raised |-> TRUE, content |-> << >>]}
  \cup {[raised |-> FALSE, content |-> c] :
          c \in {NamesText(names) : names \in SeqsUpTo(ReplyNames, MaxReplyNames)}
                \cup {<<"Sure", ":", " ">> \o NamesText(<<"Udaan">>) \o <<" ", "bye">>,
                      <<"no", " ", "list">>, <<"]", " ", "[">>, <<"[", "[", "]", "]">>,
                      <<"[", "1", ",", "null", "]">>, << >>}}

InitSuppliers ==
  /\ raw_text \in SupplierReplies
  /\ suppliers = NoResult
  /\ TextIdle
  /\ RankIdle
  /\ MoneyIdle
  /\ RegionIdle
  /\ ProductIdle
  /\ ApiIdle
  /\ PolicyIdle
  /\ FilesIdle
  /\ ReconIdle

NextSuppliers == DiscoverSuppliers

SpecSuppliers == InitSuppliers /\ [][NextSuppliers]_vars


(***************************************************************************)
(* Claims about supplier discovery.                                        *)
(***************************************************************************)
Range(ps) == {ps[i] : i \in 1..Len(ps)}

\* C27: for every reply of the model the list discover_suppliers_with_ai returns
\* has at most 8 entries, holds names of known procurement platforms only, and
\* holds each of the essential platforms IndiaMART, TradeIndia and Amazon Business.
C27_EssentialSuppliers ==
  suppliers # NoResult =>
    /\ Len(suppliers.val) <= 8
    /\ Range(suppliers.val) \subseteq known_procurement_platforms
    /\ {"IndiaMART", "TradeIndia", "Amazon Business"} \subseteq Range(suppliers.val)


(***************************************************************************)
(* market.py: is_b2b_product and discover_platforms_with_groq.  A text     *)
(* field of the product is a sequence of words; the string is the words    *)
(* joined by single spaces.                                                *)
(***************************************************************************)
\* the terms that are substrings of a word of the products
Inside(w) ==
  CASE w = "offices" -> {"offices", "office"}
    [] w = "businesses" -> {"businesses", "business"}
    [] w = "wholesalers" -> {"wholesalers", "wholesale"}
    [] w = "electronics" -> {"electronics", "electronic"}
    [] w = "" -> {}
    [] OTHER -> {w}

\* `term in string`: the words of the term stand in a row in the string
Occurs(term, words) ==
  \E i \in 1..(Len(words) - Len(term) + 1) :
    /\ \A j \in 1..(Len(term) - 1) : words[i + j - 1] = term[j]
    /\ term[Len(term)] \in Inside(words[i + Len(term) - 1])

\* the words of str.lower() of a field; an empty string is one empty word
LowerWords(field) ==
  IF field = << >> THEN <<"">> ELSE [i \in 1..Len(field) |-> Lower(field[i])]

\* ' '.join(strings)
RECURSIVE JoinWords(_, _)
JoinWords(strings, i) ==
  IF i > Len(strings) THEN << >>
  ELSE LowerWords(strings[i]) \o JoinWords(strings, i + 1)

b2b_keywords ==
  <<<<"industrial">>, <<"commercial">>, <<"wholesale">>, <<"bulk">>, <<"professional">>,
    <<"corporate">>, <<"business">>, <<"office">>, <<"manufacturing">>, <<"equipment">>,
    <<"machinery">>, <<"tools">>, <<"safety">>, <<"medical">>, <<"laboratory">>,
    <<"construction">>, <<"automotive", "parts">>, <<"electronic", "components">>,
    <<"raw", "materials">>, <<"packaging", "materials">>, <<"chemicals">>,
    <<"pharmaceuticals">>, <<"textiles">>, <<"metals">>, <<"plastics">>>>

b2b_target_audiences ==
  <<<<"companies">>, <<"manufacturers">>, <<"distributors">>, <<"retailers">>,
    <<"wholesalers">>, <<"businesses">>, <<"enterprises">>, <<"industries">>,
    <<"factories">>, <<"workshops">>, <<"hospitals">>, <<"clinics">>, <<"laboratories">>,
    <<"schools">>, <<"offices">>, <<"construction">>, <<"automotive">>, <<"mining">>,
    <<"agriculture">>>>

b2b_categories ==
  <<<<"industrial">>, <<"commercial">>, <<"office">>, <<"manufacturing">>,
    <<"construction">>, <<"medical", "equipment">>, <<"safety">>, <<"laboratory">>,
    <<"automotive", "parts">>, <<"electronic", "components">>, <<"chemicals">>,
    <<"machinery">>, <<"tools">>>>

\* the number of the terms that occur in the string
Matches(terms, words) == Cardinality({i \in 1..Len(terms) : Occurs(terms[i], words)})

\* f"{product_name} {category} {description} {target_audience} {features}"
all_text(p) ==
  LowerWords(p.name) \o LowerWords(p.category) \o LowerWords(p.description)
  \o LowerWords(p.target_audience)
  \o (IF p.features = << >> THEN <<"">> ELSE JoinWords(p.features, 1))

PriceLimit == 5000
B2BThreshold == 3

b2b_score(p) ==
    2 * Matches(b2b_keywords, all_text(p))
  + 3 * Matches(b2b_target_audiences, LowerWords(p.target_audience))
  + 3 * Matches(b2b_categories, LowerWords(p.category))
  + (IF p.price > PriceLimit THEN 1 ELSE 0)

\* a classifier that asks for more than the threshold
IsB2BAboveThreshold(p) == b2b_score(p) > B2BThreshold

is_b2b_product(p) == b2b_score(p) >= B2BThreshold

\* category_platforms: the words of cat_key.lower() and the platforms of the key
category_platforms ==
  <<[key |-> <<"industrial">>,
     names |-> {"IndiaMART", "TradeIndia", "Amazon Business",
                "Government e-Marketplace (GeM)", "ONDC Network"}],
    [key |-> <<"safety", "equipment">>,
     names |-> {"IndiaMART", "Government e-Marketplace (GeM)", "Amazon Business",
                "TradeIndia"}],
    [key |-> <<"office", "supplies">>,
     names |-> {"Amazon Business", "IndiaMART", "Udaan", "Government e-Marketplace (GeM)"}],
    [key |-> <<"manufacturing">>,
     names |-> {"IndiaMART", "TradeIndia", "Alibaba India", "ExportersIndia",
                "ONDC Network"}],
    [key |-> <<"construction">>,
     names |-> {"IndiaMART", "Government e-Marketplace (GeM)", "TradeIndia",
                "Amazon Business"}],
    [key |-> <<"medical", "equipment">>,
     names |-> {"IndiaMART", "Government e-Marketplace (GeM)", "Amazon Business",
                "TradeIndia"}],
    [key |-> <<"electronic", "components">>,
     names |-> {"IndiaMART", "Amazon Business", "TradeIndia", "Alibaba India"}],
    [key |-> <<"automotive", "parts">>,
     names |-> {"IndiaMART", "TradeIndia", "Amazon Business", "Alibaba India"}],
    [key |-> <<"chemicals">>,
     names |-> {"IndiaMART", "TradeIndia", "ExportersIndia", "Alibaba India"}],
    [key |-> <<"textiles">>,
     names |-> {"IndiaMART", "TradeIndia", "ExportersIndia", "ONDC Network"}],
    [key |-> <<"packaging">>,
     names |-> {"IndiaMART", "TradeIndia", "Amazon Business", "Alibaba India"}],
    [key |-> <<"food", "&", "grocery">>,
     names |-> {"BigBasket", "JioMart", "Grofers", "ONDC Network"}],
    [key |-> <<"fashion">>,
     names |-> {"Myntra", "Ajio", "Amazon", "Flipkart", "Meesho"}],
    [key |-> <<"beauty">>,
     names |-> {"Nykaa", "Amazon", "Flipkart", "Myntra"}],
    [key |-> <<"electronics">>,
     names |-> {"Amazon", "Flipkart", "Tata CLiQ", "Paytm Mall"}],
    [key |-> <<"baby", "&", "kids">>,
     names |-> {"FirstCry", "Amazon", "Flipkart"}],
    [key |-> <<"handmade">>,
     names |-> {"ONDC Network", "Meesho", "Amazon", "IndiaMART"}],
    [key |-> <<"local", "products">>,
     names |-> {"ONDC Network", "Meesho", "JioMart"}]>>

\* line 148: the key, or one of its words, is in the category
CategoryMatches(key, words) ==
  \/ Occurs(key, words)
  \/ \E i \in 1..Len(key) : Occurs(<<key[i]>>, words)

CategoryPlatforms(p) ==
  UNION {category_platforms[i].names :
           i \in {k \in 1..Len(category_platforms) :
                    CategoryMatches(category_platforms[k].key, LowerWords(p.category))}}

\* the names of the reply, whether known_platforms has them or not
GroqNamesUnfiltered(reply) ==
  IF reply.raised THEN {}
  ELSE LET start_bracket == Find(reply.content, "[", 1)
           end_bracket == RFind(reply.content, "]", Len(reply.content))
       IN IF start_bracket # 0 /\ end_bracket # 0 /\ end_bracket > start_bracket
          THEN LET groq_platforms ==
                     JsonLoads(Slice(reply.content, start_bracket, end_bracket))
               IN IF ~groq_platforms.ok
                     \/ \E i \in 1..Len(groq_platforms.v.a) :
                          Unhashable(groq_platforms.v.a[i])
                  THEN {}
                  ELSE {Concat(groq_platforms.v.a[i].s) :
                          i \in {k \in 1..Len(groq_platforms.v.a) :
                                   groq_platforms.v.a[k].t = "str"}}
          ELSE {}

\* lines 177-196: [p for p in groq_platforms if p in self.known_platforms]; a
\* failed call, a reply without brackets, an undecodable slice and an element
\* that cannot be hashed add nothing
GroqNames(reply) ==
  IF reply.raised THEN {}
  ELSE LET start_bracket == Find(reply.content, "[", 1)
           end_bracket == RFind(reply.content, "]", Len(reply.content))
       IN IF start_bracket # 0 /\ end_bracket # 0 /\ end_bracket > start_bracket
          THEN LET groq_platforms ==
                     JsonLoads(Slice(reply.content, start_bracket, end_bracket))
               IN IF ~groq_platforms.ok
                     \/ \E i \in 1..Len(groq_platforms.v.a) :
                          Unhashable(groq_platforms.v.a[i])
                  THEN {}
                  ELSE {Concat(groq_platforms.v.a[i].s) :
                          i \in {k \in 1..Len(groq_platforms.v.a) :
                                   /\ groq_platforms.v.a[k].t = "str"
                                   /\ Concat(groq_platforms.v.a[k].s)
                                        \in DOMAIN known_platforms}}
          ELSE {}

essential_platforms(b2b) == IF b2b THEN EssentialB2B ELSE EssentialB2C

\* the set discover_platforms_with_groq turns into a list
discovered_platforms(p, b2b, reply) ==
  CategoryPlatforms(p) \cup GroqNames(reply) \cup essential_platforms(b2b)

\* line 141 of discover_platforms_with_groq
Classify ==
  /\ is_b2b = NoResult
  /\ is_b2b' = Return(is_b2b_product(product_details))
  /\ UNCHANGED <<product_details, groq_response, discovered>>
  /\ UNCHANGED notProductVars

\* lines 143-209; list(set) lists the elements in an order the set chooses
Discover ==
  /\ is_b2b # NoResult
  /\ discovered = NoResult
  /\ \E listed \in Orderings(discovered_platforms(product_details, is_b2b.val,
                                                  groq_response)) :
       discovered' = Return(listed)
  /\ UNCHANGED <<product_details, groq_response, is_b2b>>
  /\ UNCHANGED notProductVars

\* the products: a field is empty, holds no term, or holds a term
Products ==
  [name : {<<"shirt">>, <<"wholesale", "shirt">>, <<"raw">>},
   category : {<<"shirts">>, <<"Construction">>, <<"materials">>, << >>},
   description : {<< >>},
   target_audience : {<<"young", "adults">>, <<"Offices">>, << >>},
   features : {<< >>, <<<<"bulk">>, <<"soft", "cotton">>>>},
   price : {0, PriceLimit, PriceLimit + 1}]

\* the answers of the model: a failed call, prose, lists of names, other lists
PlatformReplies ==
  {[raised |-> TRUE, content |-> << >>]}
  \cup {[raised |-> FALSE, content |-> c] :
          c \in {NamesText(<<"TradeIndia">>),
                 <<"Here", ":", " ">> \o NamesText(<<"IndiaMART", "Acme Mart">>),
                 NamesText(<<"Amazon", "Amazon">>),
                 <<"no", " ", "list">>, <<"[", "Amazon", "]">>,
                 <<"[", "[", "]", "]">>}}

InitProducts ==
  /\ product_details \in Products
  /\ groq_response \in PlatformReplies
  /\ is_b2b = NoResult
  /\ discovered = NoResult
  /\ TextIdle
  /\ RankIdle
  /\ MoneyIdle
  /\ RegionIdle
  /\ ApiIdle
  /\ PolicyIdle
  /\ FilesIdle
  /\ ReconIdle
  /\ SupplierIdle

NextProducts ==
  \/ Classify
  \/ Discover

SpecProducts == InitProducts /\ [][NextProducts]_vars


(***************************************************************************)
(* Claims about the B2B score and platform discovery.                      *)
(***************************************************************************)
\* the terms of a list that occur in the string
Matched(terms, words) == {i \in 1..Len(terms) : Occurs(terms[i], words)}

\* the matches of every product: keywords, audience terms, category terms, price,
\* and what is_b2b_product makes of the product
MatchTable ==
  {[product |-> q,
    keywords |-> Matched(b2b_keywords, all_text(q)),
    audiences |-> Matched(b2b_target_audiences, LowerWords(q.target_audience)),
    categories |-> Matched(b2b_categories, LowerWords(q.category)),
    high |-> q.price > 5000,
    b2b |-> is_b2b_product(q)] : q \in Products}

MatchesOf(p) == CHOOSE row \in MatchTable : row.product = p

\* the second product has every match that the first has
MoreMatches(row, more) ==
  /\ row.keywords \subseteq more.keywords
  /\ row.audiences \subseteq more.audiences
  /\ row.categories \subseteq more.categories
  /\ (row.high => more.high)

\* C28: for every product and every reply of the model, a failed call and an
\* unparseable reply included, the list discover_platforms_with_groq returns has
\* no duplicates, holds keys of known_platforms only, and holds every essential
\* platform of the detected type: IndiaMART, Amazon Business, ONDC Network and
\* Government e-Marketplace (GeM) for B2B, Amazon, Flipkart and ONDC Network for B2C.
C28_DiscoveredPlatforms ==
  discovered # NoResult =>
    /\ \A i, j \in 1..Len(discovered.val) : i # j => discovered.val[i] # discovered.val[j]
    /\ Range(discovered.val) \subseteq DOMAIN known_platforms
    /\ is_b2b.val =>
         {"IndiaMART", "Amazon Business", "ONDC Network", "Government e-Marketplace (GeM)"}
           \subseteq Range(discovered.val)
    /\ ~is_b2b.val => {"Amazon", "Flipkart", "ONDC Network"} \subseteq Range(discovered.val)

\* a list is returned for a B2B product when the reply names an unknown platform
C28_Witness ==
  /\ discovered # NoResult
  /\ is_b2b = Return(TRUE)
  /\ "Acme Mart" \in GroqNamesUnfiltered(groq_response)

\* C29: is_b2b_product returns true exactly when the score is at least 3, the score
\* being 2 for each B2B keyword in the concatenated text, 3 for each audience term
\* in target_audience, 3 for each category term in category and 1 for a price above
\* 5000; so one keyword alone, or a price above 5000 alone, gives B2C, and a product
\* with every match of a B2B product is B2B.
C29_ScoreThreshold ==
  is_b2b # NoResult =>
    LET row == MatchesOf(product_details)
        keywords == Cardinality(row.keywords)
        audiences == Cardinality(row.audiences)
        categories == Cardinality(row.categories)
        high == IF product_details.price > 5000 THEN 1 ELSE 0
    IN /\ is_b2b.val = (2 * keywords + 3 * audiences + 3 * categories + high >= 3)
       /\ (keywords = 1 /\ audiences = 0 /\ categories = 0 /\ high = 0) => ~is_b2b.val
       /\ (keywords = 0 /\ audiences = 0 /\ categories = 0 /\ high = 1) => ~is_b2b.val
       /\ is_b2b.val => \A more \in MatchTable : MoreMatches(row, more) => more.b2b

\* a product with one keyword and a price above 5000 is classified as B2B
C29_Witness ==
  /\ is_b2b = Return(TRUE)
  /\ b2b_score(product_details) = 3
  /\ Matches(b2b_keywords, all_text(product_details)) = 1
  /\ product_details.price > PriceLimit


(***************************************************************************)
(* policy_generator.py: determine_compliance_regions.  A country string is *)
(* its lower-case spelling and the case it is written in.                  *)
(***************************************************************************)
Casings == {"lower", "upper", "title"}

\* the string as it is written
AsWritten(c) == c

\* country.lower()
CountryLower(c) == [word |-> c.word, casing |-> "lower"]

\* a list of lower-case literals of the source
Literals(words) == {[word |-> w, casing |-> "lower"] : w \in words}

IndiaNames == {"india", "in"}
EUNames ==
  {"germany", "france", "italy", "spain", "netherlands", "belgium", "austria", "poland",
   "czech republic", "hungary", "romania", "bulgaria", "croatia", "slovakia", "slovenia",
   "estonia", "latvia", "lithuania", "luxembourg", "malta", "cyprus", "denmark", "sweden",
   "finland", "ireland", "portugal", "greece"}
USNames == {"united states", "usa", "us"}
CanadaNames == {"canada", "ca"}
UKNames == {"united kingdom", "uk", "gb"}
AustraliaNames == {"australia", "au"}

determine_compliance_regions(c) ==
  LET regions ==
           (IF CountryLower(c) \in Literals(IndiaNames)
            THEN <<"Indian_IT_Act", "Indian_Consumer_Protection_Act">> ELSE << >>)
        \o (IF CountryLower(c) \in Literals(EUNames) THEN <<"GDPR">> ELSE << >>)
        \o (IF CountryLower(c) \in Literals(USNames)
            THEN <<"CCPA", "COPPA", "US_FTC">> ELSE << >>)
        \o (IF CountryLower(c) \in Literals(CanadaNames) THEN <<"PIPEDA">> ELSE << >>)
        \o (IF CountryLower(c) \in Literals(UKNames)
            THEN <<"UK_GDPR", "UK_DPA">> ELSE << >>)
        \o (IF CountryLower(c) \in Literals(AustraliaNames)
            THEN <<"Australian_Privacy_Act">> ELSE << >>)
  IN IF regions = << >> THEN <<"International_Best_Practices">> ELSE regions

DetermineRegions ==
  /\ compliance_regions = NoResult
  /\ compliance_regions' = Return(determine_compliance_regions(country))
  /\ UNCHANGED country
  /\ UNCHANGED notRegionVars

\* the countries of the request: the listed names, names that hold a listed name,
\* other names and the empty string, in three cases
ListedNames ==
  IndiaNames \cup EUNames \cup USNames \cup CanadaNames \cup UKNames \cup AustraliaNames
OtherNames == {"japan", "brazil", "indiana", "south india", "u.s.", "england", ""}
Countries == [word : ListedNames \cup OtherNames, casing : Casings]

InitRegions ==
  /\ country \in Countries
  /\ compliance_regions = NoResult
  /\ TextIdle
  /\ RankIdle
  /\ MoneyIdle
  /\ ApiIdle
  /\ PolicyIdle
  /\ FilesIdle
  /\ ReconIdle
  /\ SupplierIdle
  /\ ProductIdle

NextRegions == DetermineRegions

SpecRegions == InitRegions /\ [][NextRegions]_vars


(***************************************************************************)
(* Claims about the compliance regions.                                    *)
(***************************************************************************)
\* C30: determine_compliance_regions never returns an empty list; for every country
\* the result holds 'International_Best_Practices' if and only if the country in
\* lower case is in none of the listed groups, and then it is the only element;
\* the case the country is written in does not change the result.
C30_RegionsNeverEmpty ==
  compliance_regions # NoResult =>
    /\ Len(compliance_regions.val) >= 1
    /\ "International_Best_Practices" \in Range(compliance_regions.val)
         <=> country.word \notin ListedNames
    /\ "International_Best_Practices" \in Range(compliance_regions.val)
         => compliance_regions.val = <<"International_Best_Practices">>
    /\ \A casing \in Casings :
         determine_compliance_regions([word |-> country.word, casing |-> casing])
           = compliance_regions.val

\* a listed country written in capitals gets its group's regions
C30_Witness ==
  /\ country = [word |-> "united kingdom", casing |-> "upper"]
  /\ compliance_regions = Return(<<"UK_GDPR", "UK_DPA">>)


====
